---- MODULE Spec2Model ----
(***************************************************************************)
(* Model of the hybrid retrieval-and-ranking pipeline of lincolnbot        *)
(* (modules/rag_process.py, modules/reranking.py).                         *)
(*                                                                         *)
(* Text is modelled as a sequence of words joined by single spaces; every  *)
(* word has a character length (WordLen), so character offsets, the        *)
(* 300-character quote window and its clipping are computed as the code    *)
(* computes them.  A quote is identified by the character range of the     *)
(* body it covers.  Source labels and filter tokens are character          *)
(* sequences, so substring search and the \b regular expression are        *)
(* computed character by character.  Real numbers are exact rationals      *)
(* <<numerator, denominator>> in lowest terms.                             *)
(***************************************************************************)
EXTENDS Integers, Sequences, FiniteSets, TLC

VARIABLES
    lincoln_data,        \* self.lincoln_data: the corpus, a list of entries
    voyant_terms,        \* json_data['corpusTerms']['terms']
    kw_call,             \* arguments of the last keyword search
    normalized_weights,  \* dynamic weights computed by the last keyword search
    search_results,      \* rows returned by the last keyword search
    kw_outcome,          \* "idle", "ok" or the name of the exception raised
    dedup_call,          \* arguments of the last remove_duplicates call
    deduplicated_results, \* the DataFrame it returned
    dedup_outcome,       \* "idle", "ok" or the name of the exception raised
    all_combined_data,   \* the reranker documents built from the two frames
    combined_outcome,    \* "idle" or "ok"
    again_call,          \* arguments of a repeated remove_duplicates call
    deduplicated_again,  \* the DataFrame the repeated call returned
    lincoln_dict,        \* self.lincoln_dict, set by run_rag_process
    rerank_call,         \* arguments and collaborator response of the last rerank
    full_reranked_results, \* list returned by RAGProcess.rerank_results
    rerank_outcome,      \* "idle", "ok" or "Exception"
    reranked_data,       \* rows of the DataFrame returned by reranking.rerank_results
    reranking_outcome,   \* "idle", "ok" or "error_reported"
    lincoln_index_df,    \* self.lincoln_index_df: the embedded index
    sem_call,            \* arguments of the last search_text call
    semantic_matches,    \* rows returned by the last search_text call
    sem_outcome,         \* "idle", "ok" or "Exception"
    seg_call,            \* arguments of compare_segments_with_query_parallel
    futures,             \* the futures submitted so far, in submission order
    completion_order,    \* indices of the finished futures, as they finished
    segment_scores,      \* the list the call returned
    seg_outcome,         \* "idle", "running", "ok" or "Exception"
    corpus_kind,         \* what self.lincoln_data and self.voyant_data are
    runs,                \* the run_rag_process calls: position and locals
    input_text,          \* argument of the last segment_text call
    text_segments,       \* the list segment_text returned
    top_call,            \* semantic matches and query of the segment selection
    top_segments,        \* the representative segments recorded, in row order
    top_outcome,         \* "idle", "segmented", "ok" or "Exception"
    candidate,           \* a candidate handed to the reranker as a line
    document_line,       \* the line written for the candidate and its writer
    parsed,              \* the records the two parsers read back from the line
    sheet,               \* the records of the Google sheet of a DataLogger
    log_calls            \* the record_api_outputs calls: position and locals

KwVars == <<lincoln_data, voyant_terms, kw_call, normalized_weights,
            search_results, kw_outcome>>
DdVars == <<dedup_call, deduplicated_results, dedup_outcome, all_combined_data,
            combined_outcome, again_call, deduplicated_again>>

RrVars == <<lincoln_dict, rerank_call, full_reranked_results, rerank_outcome,
            reranked_data, reranking_outcome>>

SemVars == <<lincoln_index_df, sem_call, semantic_matches, sem_outcome>>

SegVars == <<seg_call, futures, completion_order, segment_scores, seg_outcome>>

PipeVars == <<corpus_kind, runs>>

TopVars == <<input_text, text_segments, top_call, top_segments, top_outcome>>

LineVars == <<candidate, document_line, parsed>>

LogVars == <<sheet, log_calls>>

vars == <<KwVars, DdVars, RrVars, SemVars, SegVars, PipeVars, TopVars, LineVars, LogVars>>

-----------------------------------------------------------------------------
(* Bounds of the model *)

MaxDocs == 2
MaxKeywords == 3
MaxWeight == 2
MaxFreq == 1
PadLen == 400

-----------------------------------------------------------------------------
(* Generic helpers *)

Min(a, b) == IF a <= b THEN a ELSE b
Max(a, b) == IF a >= b THEN a ELSE b

RECURSIVE GCD(_, _)
GCD(a, b) == IF b = 0 THEN a ELSE GCD(b, a % b)

\* exact rationals <<n, d>>, n >= 0, d > 0, in lowest terms
RNorm(r) == LET g == GCD(r[1], r[2]) IN <<r[1] \div g, r[2] \div g>>
RMul(a, b) == RNorm(<<a[1] * b[1], a[2] * b[2]>>)
RDiv(a, b) == RNorm(<<a[1] * b[2], a[2] * b[1]>>)
RAdd(a, b) == RNorm(<<a[1] * b[2] + b[1] * a[2], a[2] * b[2]>>)
RLess(a, b) == a[1] * b[2] < b[1] * a[2]
RLeq(a, b) == a[1] * b[2] <= b[1] * a[2]
RInt(n) == <<n, 1>>

SeqRange(s) == {s[i] : i \in 1..Len(s)}

\* all sequences without repetition over S of length at most n
RECURSIVE DistinctSeqs(_, _)
DistinctSeqs(S, n) ==
    IF n = 0 THEN {<<>>}
    ELSE LET shorter == DistinctSeqs(S, n - 1)
         IN shorter \cup
            {Append(p[1], p[2]) :
                p \in {q \in shorter \X S :
                          Len(q[1]) = n - 1 /\ q[2] \notin SeqRange(q[1])}}

-----------------------------------------------------------------------------
(* Strings *)

\* str.lower() on the words of the model
LowerWord(w) ==
    CASE w = "War" -> "war"
      [] w = "Union" -> "union"
      [] OTHER -> w

\* number of characters of a word; "pad" stands for a long run of text that
\* contains no keyword
WordLen(w) ==
    CASE w \in {"war", "War", "the"} -> 3
      [] w \in {"union", "Union"} -> 5
      [] w = "pad" -> PadLen
      [] OTHER -> 1

LowerWords(ws) == [i \in 1..Len(ws) |-> LowerWord(ws[i])]

\* len(' '.join(ws))
RECURSIVE TextLen(_)
TextLen(ws) ==
    IF ws = <<>> THEN 0
    ELSE IF Len(ws) = 1 THEN WordLen(ws[1])
    ELSE WordLen(ws[1]) + 1 + TextLen(Tail(ws))

\* character offset (0-based) of the i-th word of ' '.join(ws)
WordOffset(ws, i) == IF i = 1 THEN 0 ELSE TextLen(SubSeq(ws, 1, i - 1)) + 1

\* str.lower() on the characters of a source label or filter token
LowerChar(c) ==
    CASE c = "A" -> "a"
      [] c = "B" -> "b"
      [] c = "C" -> "c"
      [] c = "D" -> "d"
      [] OTHER -> c

LowerStr(s) == [i \in 1..Len(s) |-> LowerChar(s[i])]

\* str.strip()
RECURSIVE LStrip(_)
LStrip(s) == IF s # <<>> /\ s[1] = " " THEN LStrip(Tail(s)) ELSE s
RECURSIVE RStrip(_)
RStrip(s) ==
    IF s # <<>> /\ s[Len(s)] = " " THEN RStrip(SubSeq(s, 1, Len(s) - 1)) ELSE s
Strip(s) == RStrip(LStrip(s))

\* t occurs in s starting at index i (1-based)
OccursAt(t, s, i) ==
    /\ i >= 1
    /\ i + Len(t) - 1 <= Len(s)
    /\ SubSeq(s, i, i + Len(t) - 1) = t

\* Python's "t in s"
IsSubstring(t, s) == \E i \in 1..(Len(s) + 1) : OccursAt(t, s, i)

\* \w of the regular expressions
IsWordChar(c) == c # " "

\* \b holds between s[j-1] and s[j]
WordBoundary(s, j) ==
    LET before == j > 1 /\ j - 1 <= Len(s) /\ IsWordChar(s[j - 1])
        after == j >= 1 /\ j <= Len(s) /\ IsWordChar(s[j])
    IN before # after

\* re.search(r'\b' + re.escape(t) + r'\b', s) finds a match
RegexWordSearch(t, s) ==
    \E i \in 1..(Len(s) + 1) :
        /\ OccursAt(t, s, i)
        /\ WordBoundary(s, i)
        /\ WordBoundary(s, i + Len(t))

-----------------------------------------------------------------------------
(* Keyword Weighting Engine: RAGProcess.search_with_dynamic_weights_expanded *)

\* sum(term['rawFreq'] for term in terms)
RECURSIVE total_words(_)
total_words(terms) ==
    IF terms = <<>> THEN 0 ELSE terms[1].rawFreq + total_words(Tail(terms))

\* the indices of the term table whose lower-cased term is k
TermIndices(terms, k) == {i \in 1..Len(terms) : LowerWord(terms[i].term) = k}

\* relative_frequencies.get(k, 1): the dict comprehension keeps the last
\* entry of a repeated key
relative_frequencies_get(terms, k) ==
    IF TermIndices(terms, k) = {} THEN RInt(1)
    ELSE LET last == CHOOSE i \in TermIndices(terms, k) :
                         \A j \in TermIndices(terms, k) : j <= i
         IN RNorm(<<terms[last].rawFreq, total_words(terms)>>)

\* variant: the relative frequency itself is used as the weight
inverse_weight_not_inverted(terms, keyword) ==
    relative_frequencies_get(terms, LowerWord(keyword))

\* inverse_weights[keyword] = 1 / relative_frequencies.get(keyword.lower(), 1)
inverse_weight(terms, keyword) ==
    RDiv(RInt(1), relative_frequencies_get(terms, LowerWord(keyword)))

\* max(inverse_weights.values())
max_weight(terms, user_keywords) ==
    LET ws == {inverse_weight(terms, user_keywords[i].keyword) :
                  i \in 1..Len(user_keywords)}
    IN CHOOSE m \in ws : \A w \in ws : RLeq(w, m)

\* variant: the weights are scaled by 10 without dividing by the maximum
normalized_weight_unscaled(terms, user_keywords, keyword) ==
    RMul(inverse_weight(terms, keyword), RInt(10))

\* (weight / max_weight) * 10
normalized_weight(terms, user_keywords, keyword) ==
    RMul(RDiv(inverse_weight(terms, keyword), max_weight(terms, user_keywords)),
         RInt(10))

\* normalized_weights, in the insertion order of user_keywords
NormalizedWeights(terms, user_keywords) ==
    [i \in 1..Len(user_keywords) |->
        [keyword |-> user_keywords[i].keyword,
         weight |-> normalized_weight(terms, user_keywords,
                                      user_keywords[i].keyword)]]

\* variant: the maximum of no weights is taken to be a default
WeightingOutcome_empty_ok(terms, user_keywords) ==
    IF terms # <<>> /\ total_words(terms) = 0 THEN "ZeroDivisionError"
    ELSE IF \E i \in 1..Len(user_keywords) :
               relative_frequencies_get(terms,
                   LowerWord(user_keywords[i].keyword))[1] = 0
         THEN "ZeroDivisionError"
    ELSE "ok"

\* the exception the weighting raises, or "ok"
WeightingOutcome(terms, user_keywords) ==
    IF terms # <<>> /\ total_words(terms) = 0 THEN "ZeroDivisionError"
    ELSE IF \E i \in 1..Len(user_keywords) :
               relative_frequencies_get(terms,
                   LowerWord(user_keywords[i].keyword))[1] = 0
         THEN "ZeroDivisionError"
    ELSE IF user_keywords = <<>> THEN "ValueError"
    ELSE "ok"

\* dynamic_weights.get(keyword, 0)
dynamic_weights_get(dynamic_weights, keyword) ==
    IF \E i \in 1..Len(dynamic_weights) : dynamic_weights[i].keyword = keyword
    THEN dynamic_weights[CHOOSE i \in 1..Len(dynamic_weights) :
                             dynamic_weights[i].keyword = keyword].weight
    ELSE RInt(0)

-----------------------------------------------------------------------------
(* Keyword Search Engine: RAGProcess.find_instances_expanded_search *)

context_length == 300

\* text_keywords_list
text_keywords_list(text_keywords) ==
    [i \in 1..Len(text_keywords) |-> LowerStr(Strip(text_keywords[i]))]

match_source_year(entry, year_keywords) ==
    \/ year_keywords = <<>>
    \/ \E i \in 1..Len(year_keywords) :
          IsSubstring(year_keywords[i], LowerStr(entry.source))

\* variant: the token is searched as a substring, without \b
match_source_text_substring(entry, text_keywords) ==
    \/ text_keywords = <<>>
    \/ \E i \in 1..Len(text_keywords) :
          IsSubstring(LowerStr(text_keywords_list(text_keywords)[i]),
                      LowerStr(entry.source))

match_source_text(entry, text_keywords) ==
    \/ text_keywords = <<>>
    \/ \E i \in 1..Len(text_keywords) :
          RegexWordSearch(LowerStr(text_keywords_list(text_keywords)[i]),
                          LowerStr(entry.source))

\* start offsets, in text order, of the matches of
\* r'\b' + keyword_lower + r'\b' in combined_text
RECURSIVE WordMatches(_, _, _, _)
WordMatches(ws, keyword_lower, base, i) ==
    IF i > Len(ws) THEN <<>>
    ELSE (IF LowerWord(ws[i]) = keyword_lower
          THEN <<base + WordOffset(ws, i)>> ELSE <<>>)
         \o WordMatches(ws, keyword_lower, base, i + 1)

finditer(entry, keyword_lower) ==
    LET body_len == TextLen(entry.full_text)
        summary_len == TextLen(entry.summary)
    IN WordMatches(entry.full_text, keyword_lower, 0, 1)
       \o WordMatches(entry.summary, keyword_lower, body_len + 1, 1)
       \o WordMatches(entry.keywords, keyword_lower,
                      body_len + 1 + summary_len + 1, 1)

\* d[key] = value on an insertion-ordered dict
DictPut(d, key, value) ==
    IF \E i \in 1..Len(d) : d[i].key = key
    THEN [i \in 1..Len(d) |-> IF d[i].key = key
                              THEN [key |-> key, value |-> value] ELSE d[i]]
    ELSE Append(d, [key |-> key, value |-> value])

\* the inner loop: its body runs once per match of the keyword
RECURSIVE MatchLoop(_, _, _, _, _, _)
MatchLoop(matches, j, keyword, dynamic_weight, original_weight, st) ==
    IF j > Len(matches) THEN st
    ELSE LET count == Len(matches)
             next == IF count > 0
                     THEN [keyword_counts |->
                               DictPut(st.keyword_counts, keyword, count),
                           total_dynamic_weighted_score |->
                               RAdd(st.total_dynamic_weighted_score,
                                    RMul(RInt(count), dynamic_weight)),
                           keyword_positions |->
                               DictPut(st.keyword_positions, matches[j],
                                       [keyword |-> keyword,
                                        original_weight |-> original_weight])]
                     ELSE st
         IN MatchLoop(matches, j + 1, keyword, dynamic_weight, original_weight,
                      next)

\* the outer loop: for keyword in original_weights.keys()
RECURSIVE KeywordLoop(_, _, _, _, _)
KeywordLoop(entry, dynamic_weights, original_weights, k, st) ==
    IF k > Len(original_weights) THEN st
    ELSE LET keyword == original_weights[k].keyword
         IN KeywordLoop(entry, dynamic_weights, original_weights, k + 1,
                MatchLoop(finditer(entry, LowerWord(keyword)), 1, keyword,
                          dynamic_weights_get(dynamic_weights, keyword),
                          original_weights[k].weight, st))

ScanEntry(entry, dynamic_weights, original_weights) ==
    KeywordLoop(entry, dynamic_weights, original_weights, 1,
                [keyword_counts |-> <<>>,
                 total_dynamic_weighted_score |-> RInt(0),
                 keyword_positions |-> <<>>])

\* max(keyword_positions.items(), key=lambda x: x[1][1])[0]: the first item
\* of greatest original weight
highest_original_weighted_position(keyword_positions) ==
    LET n == Len(keyword_positions)
        best == CHOOSE i \in 1..n :
                   /\ \A j \in 1..n : keyword_positions[j].value.original_weight
                                      <= keyword_positions[i].value.original_weight
                   /\ \A j \in 1..(i - 1) :
                          keyword_positions[j].value.original_weight
                          < keyword_positions[i].value.original_weight
    IN keyword_positions[best].key

\* text[a:b] of a text of n characters, as the character range it covers
Slice(n, a, b) ==
    IF a >= Min(b, n) THEN [start |-> 0, end |-> 0]
    ELSE [start |-> a, end |-> Min(b, n)]

\* the snippet of one entry
Snippet(entry, position) ==
    LET start_quote == Max(0, position - context_length)
        end_quote == Min(TextLen(LowerWords(entry.full_text)),
                         position + context_length)
    IN Slice(TextLen(entry.full_text), start_quote, end_quote)

\* the instance appended for one entry
Instance(entry, st) ==
    [text_id |-> entry.text_id,
     source |-> entry.source,
     summary |-> entry.summary,
     quote |-> Snippet(entry,
                   highest_original_weighted_position(st.keyword_positions)),
     weighted_score |-> st.total_dynamic_weighted_score,
     keyword_counts |-> st.keyword_counts]

\* variant: an entry without any occurrence is appended with an empty quote
RECURSIVE Instances_keep_empty(_, _, _, _, _, _)
Instances_keep_empty(data, e, dw, ow, years, texts) ==
    IF e > Len(data) THEN <<>>
    ELSE LET entry == data[e]
             st == ScanEntry(entry, dw, ow)
             found ==
                 IF /\ "full_text" \in DOMAIN entry
                    /\ "source" \in DOMAIN entry
                    /\ match_source_year(entry, years)
                    /\ match_source_text(entry, texts)
                 THEN IF st.keyword_positions # <<>>
                      THEN <<Instance(entry, st)>>
                      ELSE <<[text_id |-> entry.text_id,
                              source |-> entry.source,
                              summary |-> entry.summary,
                              quote |-> [start |-> 0, end |-> 0],
                              weighted_score |-> st.total_dynamic_weighted_score,
                              keyword_counts |-> st.keyword_counts]>>
                 ELSE <<>>
         IN found \o Instances_keep_empty(data, e + 1, dw,
                                          ow, years,
                                          texts)

\* the loop over the corpus
RECURSIVE Instances(_, _, _, _, _, _)
Instances(data, e, dw, ow, years, texts) ==
    IF e > Len(data) THEN <<>>
    ELSE LET entry == data[e]
             st == ScanEntry(entry, dw, ow)
             found ==
                 IF /\ "full_text" \in DOMAIN entry
                    /\ "source" \in DOMAIN entry
                    /\ match_source_year(entry, years)
                    /\ match_source_text(entry, texts)
                    /\ st.keyword_positions # <<>>
                 THEN <<Instance(entry, st)>>
                 ELSE <<>>
         IN found \o Instances(data, e + 1, dw, ow,
                               years, texts)

\* variant: an element is inserted before the elements of equal score
RECURSIVE SortInsert_unstable(_, _)
SortInsert_unstable(sorted, x) ==
    IF sorted = <<>> THEN <<x>>
    ELSE IF RLeq(sorted[1].weighted_score, x.weighted_score)
         THEN <<x>> \o sorted
         ELSE <<sorted[1]>> \o SortInsert_unstable(Tail(sorted), x)

\* list.sort(key=weighted_score, reverse=True): stable, equal keys keep order
RECURSIVE SortInsert(_, _)
SortInsert(sorted, x) ==
    IF sorted = <<>> THEN <<x>>
    ELSE IF RLess(sorted[1].weighted_score, x.weighted_score)
         THEN <<x>> \o sorted
         ELSE <<sorted[1]>> \o SortInsert(Tail(sorted), x)

RECURSIVE SortInstances(_, _)
SortInstances(instances, n) ==
    IF n = 0 THEN <<>>
    ELSE SortInsert(SortInstances(instances, n - 1), instances[n])

find_instances_expanded_search(dw, ow, data, years, texts, top_n) ==
    LET instances == Instances(data, 1, dw, ow,
                               years, texts)
    IN SortInstances(instances, Len(instances))

\* search_with_dynamic_weights_expanded: the rows of the returned DataFrame
search_with_dynamic_weights_expanded(uk, terms, years, texts, top_n, data) ==
    find_instances_expanded_search(NormalizedWeights(terms, uk),
                                   uk, data, years,
                                   texts, top_n)

-----------------------------------------------------------------------------
(* Deduplicator: RAGProcess.remove_duplicates on pandas DataFrames *)

\* a DataFrame: a set of columns and a list of rows, each row a function
\* from the columns to values; "NaN" is the missing value
EmptyFrame == [columns |-> {}, rows |-> <<>>]

PadRow(row, columns) ==
    [c \in columns |-> IF c \in DOMAIN row THEN row[c] ELSE "NaN"]

PadRows(rows, columns) == [i \in 1..Len(rows) |-> PadRow(rows[i], columns)]

\* pd.DataFrame(records): the columns are the keys of the records
DataFrame(records) ==
    LET columns == UNION {DOMAIN records[i] : i \in 1..Len(records)}
    IN [columns |-> columns, rows |-> PadRows(records, columns)]

\* pd.concat([a, b])
pd_concat(a, b) ==
    LET columns == a.columns \cup b.columns
    IN [columns |-> columns,
        rows |-> PadRows(a.rows, columns) \o PadRows(b.rows, columns)]

\* variant: a row is dropped only when it repeats the row right before it
RECURSIVE KeepFirst_adjacent_only(_, _, _)
KeepFirst_adjacent_only(rows, col, seen) ==
    IF rows = <<>> THEN <<>>
    ELSE IF rows[1][col] \in seen
         THEN KeepFirst_adjacent_only(Tail(rows), col, seen)
    ELSE <<rows[1]>> \o KeepFirst_adjacent_only(Tail(rows), col, {rows[1][col]})

\* the rows kept by drop_duplicates(subset=col, keep='first')
RECURSIVE KeepFirst(_, _, _)
KeepFirst(rows, col, seen) ==
    IF rows = <<>> THEN <<>>
    ELSE IF rows[1][col] \in seen THEN KeepFirst(Tail(rows), col, seen)
    ELSE <<rows[1]>> \o KeepFirst(Tail(rows), col, seen \cup {rows[1][col]})

drop_duplicates(frame, col) ==
    [columns |-> frame.columns, rows |-> KeepFirst(frame.rows, col, {})]

\* variant: the semantic matches are concatenated first
remove_duplicates_semantic_first(search, semantic) ==
    drop_duplicates(pd_concat(semantic, search), "text_id")

remove_duplicates(search, semantic) ==
    drop_duplicates(pd_concat(search, semantic), "text_id")

\* drop_duplicates returns a frame without rows as it is; otherwise it raises
\* KeyError when the subset column does not exist
remove_duplicates_outcome(search, semantic) ==
    IF search.rows = <<>> /\ semantic.rows = <<>> THEN "ok"
    ELSE IF "text_id" \in (search.columns \cup semantic.columns) THEN "ok"
    ELSE "KeyError"

-----------------------------------------------------------------------------
(* Reranker documents: RAGProcess.run_rag_process, lines 316-326 *)

\* if 'quote' not in deduplicated_results.columns:
\*     deduplicated_results['quote'] = ''
quote_default(frame) ==
    IF "quote" \in frame.columns THEN frame
    ELSE [columns |-> frame.columns \cup {"quote"},
          rows |-> [i \in 1..Len(frame.rows) |->
                       [c \in frame.columns \cup {"quote"} |->
                           IF c = "quote" THEN "" ELSE frame.rows[i][c]]]]

\* a value inside an f-string: the missing value prints as nan, the empty
\* string as nothing
Formatted(value) ==
    CASE value = "NaN" -> <<"nan">>
      [] value = "" -> <<>>
      [] value = "Text #: 1" -> <<"Text #:", " ", "1">>
      [] value = "Text #: 2" -> <<"Text #:", " ", "2">>
      [] OTHER -> <<value>>

\* f"Keyword|Text ID: {row['text_id']}|Summary: {row['summary']}|{row['quote']}"
KeywordLine(row) ==
    <<"Keyword", "|", "Text ID:", " ">> \o Formatted(row.text_id)
        \o <<"|", "Summary:", " ">> \o Formatted(row.summary)
        \o <<"|">> \o Formatted(row.quote)

\* f"Semantic|Text ID: {row['text_id']}|Summary: {row['summary']}|{row['TopSegment']}"
SemanticLine(row) ==
    <<"Semantic", "|", "Text ID:", " ">> \o Formatted(row.text_id)
        \o <<"|", "Summary:", " ">> \o Formatted(row.summary)
        \o <<"|">> \o Formatted(row.TopSegment)

\* all_combined_data: a "Keyword" line for every row of deduplicated_results
\* followed by a "Semantic" line for every row of semantic_matches
combined_data(deduplicated, semantic) ==
    [i \in 1..Len(deduplicated.rows) |-> KeywordLine(deduplicated.rows[i])]
        \o [i \in 1..Len(semantic.rows) |-> SemanticLine(semantic.rows[i])]

-----------------------------------------------------------------------------
(* Reranker Adapter: RAGProcess.rerank_results and reranking.rerank_results *)

\* A document line is a sequence of atoms: "|" is the delimiter character,
\* " " a blank, every other atom a piece of text without either.

rerank_top_n == 10

\* str.split("|")
RECURSIVE Split(_, _)
Split(line, part) ==
    IF line = <<>> THEN <<part>>
    ELSE IF line[1] = "|" THEN <<part>> \o Split(Tail(line), <<>>)
    ELSE Split(Tail(line), Append(part, line[1]))

\* str.replace(atom, "")
RECURSIVE Remove(_, _)
Remove(text, atom) ==
    IF text = <<>> THEN <<>>
    ELSE (IF text[1] = atom THEN <<>> ELSE <<text[1]>>) \o Remove(Tail(text), atom)

\* self.lincoln_dict: absent until run_rag_process has set it
NoDict == [defined |-> FALSE, items |-> {}]

\* self.lincoln_dict.get(key, {}).get('source', 'Source information not available')
source_lookup(dict, key) ==
    IF \E item \in dict.items : item.text_id = key /\ item.has_source
    THEN (CHOOSE item \in dict.items : item.text_id = key /\ item.has_source).source
    ELSE "Source information not available"

\* the record RAGProcess.rerank_results appends for a line of >= 4 parts
RagParsed(dict, idx, result) ==
    LET data_parts == Split(result.document, <<>>)
        text_id == Strip(Remove(Remove(Strip(data_parts[2]), "Text ID:"),
                                "Text #:"))
    IN [Rank |-> idx + 1,
        SearchType |-> Strip(data_parts[1]),
        TextID |-> text_id,
        Source |-> source_lookup(dict, <<"Text #:", " ">> \o text_id),
        Summary |-> Strip(Remove(Strip(data_parts[3]), "Summary:")),
        KeyQuote |-> Strip(Strip(data_parts[4])),
        RelevanceScore |-> result.relevance_score]

\* variant: the loop stops at the first line of fewer than 4 parts
RECURSIVE RagLoop_stop_at_malformed(_, _, _)
RagLoop_stop_at_malformed(dict, results, idx) ==
    IF idx >= Len(results) THEN <<>>
    ELSE IF Len(Split(results[idx + 1].document, <<>>)) < 4 THEN <<>>
    ELSE <<RagParsed(dict, idx, results[idx + 1])>>
         \o RagLoop_stop_at_malformed(dict, results, idx + 1)

\* the loop of RAGProcess.rerank_results; idx is the 0-based enumerate index
RECURSIVE RagLoop(_, _, _)
RagLoop(dict, results, idx) ==
    IF idx >= Len(results) THEN <<>>
    ELSE (IF Len(Split(results[idx + 1].document, <<>>)) >= 4
          THEN <<RagParsed(dict, idx, results[idx + 1])>> ELSE <<>>)
         \o RagLoop(dict, results, idx + 1)

\* the exception RAGProcess.rerank_results raises, or "ok": a failure of the
\* collaborator or a read of the unset attribute self.lincoln_dict is caught
\* and raised again as Exception("Error in reranking: ...")
RagRerankOutcome(dict, call) ==
    IF call.fails THEN "Exception"
    ELSE IF /\ ~dict.defined
            /\ \E i \in 1..Len(call.response) :
                  Len(Split(call.response[i].document, <<>>)) >= 4
         THEN "Exception"
    ELSE "ok"

\* the record reranking.rerank_results appends for a line of >= 4 parts
ModParsed(rank, result) ==
    LET doc_parts == Split(result.document, <<>>)
    IN [Rank |-> rank,
        SearchType |-> Strip(doc_parts[1]),
        TextID |-> Strip(doc_parts[2]),
        Summary |-> Strip(doc_parts[3]),
        KeyQuote |-> Strip(doc_parts[4]),
        RelevanceScore |-> result.relevance_score]

\* the loop of reranking.rerank_results; rank is the 1-based enumerate index.
\* result.document.split raises when the client hands back a dict, and the
\* inner except skips that result
RECURSIVE ModLoop(_, _, _)
ModLoop(results, rank, document_is_dict) ==
    IF rank > Len(results) THEN <<>>
    ELSE (IF /\ ~document_is_dict
             /\ Len(Split(results[rank].document, <<>>)) >= 4
          THEN <<ModParsed(rank, results[rank])>> ELSE <<>>)
         \o ModLoop(results, rank + 1, document_is_dict)

\* reranking.rerank_results reports every failure with st.error and returns
\* an empty DataFrame
ModRerankOutcome(call) ==
    IF call.documents = <<>> \/ ~call.query_valid \/ call.fails
    THEN "error_reported" ELSE "ok"

-----------------------------------------------------------------------------
(* Inputs of the keyword search *)

Str_Ab61 == <<"A", "b", " ", "6", "1">>
Str_cd62 == <<"c", "d", " ", "6", "2">>
Str_abc62 == <<"a", "b", "c", " ", "6", "2">>

\* the documents a corpus is made of
DocumentPool ==
    { [text_id |-> "A", source |-> Str_Ab61,
       full_text |-> <<"war", "pad", "Union">>,
       summary |-> <<>>, keywords |-> <<>>],
      [text_id |-> "B", source |-> Str_cd62,
       full_text |-> <<"pad", "war", "pad", "War">>,
       summary |-> <<"the">>, keywords |-> <<>>],
      [text_id |-> "C", source |-> Str_abc62,
       full_text |-> <<"the">>,
       summary |-> <<"war">>, keywords |-> <<"union">>] }

Corpora == DistinctSeqs(DocumentPool, MaxDocs)

\* corpus term-frequency tables: every listed term occurs in the corpus
TermTables ==
    { <<[term |-> "the", rawFreq |-> 2]>>
      \o (IF fw > 0 THEN <<[term |-> "war", rawFreq |-> fw]>> ELSE <<>>)
      \o (IF fu > 0 THEN <<[term |-> "Union", rawFreq |-> fu]>> ELSE <<>>)
      : fw \in 0..MaxFreq, fu \in 0..MaxFreq }

KeywordPool == {"War", "war", "union"}

\* keyword profiles: an insertion-ordered mapping keyword -> positive weight
KeywordProfiles ==
    UNION { { [i \in 1..Len(ks) |-> [keyword |-> ks[i], weight |-> w[i]]] :
                w \in [1..Len(ks) -> 1..MaxWeight] } :
            ks \in DistinctSeqs(KeywordPool, MaxKeywords) }

\* year_keywords: none, or tokens matched against the source label
YearFilters == { <<>>, <<<<"7">>, <<"6", "1">>>> }

\* text_keywords: none, or tokens to be stripped and lower-cased
TextFilters == { <<>>, <<<<" ", "A", "B", " ">>, <<"c", "d">>>> }

\* top_n_results=5 in the signature and in the call of run_rag_process
default_top_n == 5

\* the calls: the pipeline's limit with every filter, and a limit of one
\* match on an unfiltered search
KeywordCalls ==
    {[user_keywords |-> uk, year_keywords |-> years, text_keywords |-> texts,
      top_n_results |-> default_top_n] :
        uk \in KeywordProfiles, years \in YearFilters, texts \in TextFilters}
    \cup {[user_keywords |-> uk, year_keywords |-> <<>>, text_keywords |-> <<>>,
           top_n_results |-> 1] : uk \in KeywordProfiles}

NoCall == [user_keywords |-> <<>>, year_keywords |-> <<>>,
           text_keywords |-> <<>>, top_n_results |-> 0]

-----------------------------------------------------------------------------
(* The keyword search as a state machine *)

\* no remove_duplicates call has been made
DdIdle ==
    /\ dedup_call = [search_results |-> EmptyFrame, semantic_matches |-> EmptyFrame]
    /\ deduplicated_results = EmptyFrame
    /\ dedup_outcome = "idle"
    /\ all_combined_data = <<>>
    /\ combined_outcome = "idle"
    /\ again_call = [first |-> EmptyFrame, second |-> "none"]
    /\ deduplicated_again = EmptyFrame

NoRerank == [documents |-> <<>>, response |-> <<>>, fails |-> FALSE,
             document_is_dict |-> FALSE, query_valid |-> TRUE]

\* no rerank call has been made
RrIdle ==
    /\ rerank_call = NoRerank
    /\ full_reranked_results = <<>>
    /\ rerank_outcome = "idle"
    /\ reranked_data = <<>>
    /\ reranking_outcome = "idle"

NoIndex == [embedding_format |-> "str", columns |-> {}, rows |-> <<>>,
            similarities |-> <<>>]

NoSearch == [query_embedding |-> <<>>, n |-> 0, fails |-> FALSE]

\* no run_rag_process call has been made; the loaders of data_utils hand
\* the corpus over as a list
PipeIdle ==
    /\ corpus_kind = "list"
    /\ runs = <<>>

\* no text has been segmented and no top segment selected
TopIdle ==
    /\ input_text = <<>>
    /\ text_segments = <<>>
    /\ top_call = [rows |-> <<>>, query_embedding |-> <<>>, fails |-> FALSE]
    /\ top_segments = <<>>
    /\ top_outcome = "idle"

\* no candidate has been written as a line
LineIdle ==
    /\ candidate = <<>>
    /\ document_line = [text |-> <<>>, writer |-> "none"]
    /\ parsed = <<>>

\* no DataLogger call has been made
LogIdle ==
    /\ sheet = <<>>
    /\ log_calls = <<>>

\* no search_text call and no segment comparison has been made
SemIdle ==
    /\ sem_call = NoSearch
    /\ semantic_matches = <<>>
    /\ sem_outcome = "idle"
    /\ seg_call = [segments |-> <<>>, query_embedding |-> <<>>, failing |-> 0]
    /\ futures = <<>>
    /\ completion_order = <<>>
    /\ segment_scores = <<>>
    /\ seg_outcome = "idle"

KwInit ==
    /\ DdIdle
    /\ RrIdle
    /\ SemIdle
    /\ PipeIdle
    /\ TopIdle
    /\ LineIdle
    /\ LogIdle
    /\ lincoln_index_df = NoIndex
    /\ lincoln_dict = NoDict
    /\ lincoln_data \in Corpora
    /\ voyant_terms \in TermTables
    /\ kw_call = NoCall
    /\ normalized_weights = <<>>
    /\ search_results = <<>>
    /\ kw_outcome = "idle"

\* one call of search_with_dynamic_weights_expanded; the call reads nothing but
\* its arguments, so one call per behaviour covers every call
KeywordSearch ==
    /\ kw_outcome = "idle"
    /\ \E call \in KeywordCalls :
        LET outcome == WeightingOutcome(voyant_terms, call.user_keywords)
        IN
           /\ kw_call' = call
           /\ kw_outcome' = outcome
           /\ normalized_weights' =
                  IF outcome = "ok"
                  THEN NormalizedWeights(voyant_terms, call.user_keywords)
                  ELSE <<>>
           /\ search_results' =
                  IF outcome = "ok"
                  THEN search_with_dynamic_weights_expanded(
                           call.user_keywords, voyant_terms, call.year_keywords,
                           call.text_keywords, call.top_n_results, lincoln_data)
                  ELSE <<>>
           /\ UNCHANGED <<lincoln_data, voyant_terms, DdVars, RrVars, SemVars,
                          SegVars, PipeVars, TopVars, LineVars, LogVars>>

KwNext == KeywordSearch

KwSpec == KwInit /\ [][KwNext]_vars

-----------------------------------------------------------------------------
(* Vocabulary of the properties of the keyword search *)

Called == kw_outcome # "idle"
Returned == kw_outcome = "ok"

Profile == kw_call.user_keywords
ProfileKeywords == {Profile[i].keyword : i \in 1..Len(Profile)}
OriginalWeight(k) ==
    Profile[CHOOSE i \in 1..Len(Profile) : Profile[i].keyword = k].weight
DynamicWeight(k) ==
    normalized_weights[CHOOSE i \in 1..Len(normalized_weights) :
                           normalized_weights[i].keyword = k].weight

CorpusIndex(text_id) ==
    CHOOSE e \in 1..Len(lincoln_data) : lincoln_data[e].text_id = text_id
EntryOf(text_id) == lincoln_data[CorpusIndex(text_id)]
ResultIds == {search_results[i].text_id : i \in 1..Len(search_results)}

\* number of whole-word, case-insensitive occurrences of k in a word list
WordCount(ws, k) ==
    Cardinality({i \in 1..Len(ws) : LowerWord(ws[i]) = LowerWord(k)})

\* occurrences of k in the scanned text of an entry: body, summary, tags
Occurrences(entry, k) ==
    WordCount(entry.full_text, k) + WordCount(entry.summary, k)
        + WordCount(entry.keywords, k)

Occurring(entry) == {k \in ProfileKeywords : Occurrences(entry, k) > 0}

\* sum of count x dynamic weight over the first n keywords of the profile
RECURSIVE ExpectedScore(_, _)
ExpectedScore(entry, n) ==
    IF n = 0 THEN RInt(0)
    ELSE RAdd(ExpectedScore(entry, n - 1),
              RMul(RInt(Occurrences(entry, Profile[n].keyword)),
                   DynamicWeight(Profile[n].keyword)))

\* a filter token occurs in the label as a whole word, ignoring case
WholeWordIn(token, label) ==
    LET t == LowerStr(Strip(token))
        s == LowerStr(label)
    IN \E i \in 1..Len(s) :
          /\ OccursAt(t, s, i)
          /\ (i = 1 \/ s[i - 1] = " ")
          /\ (i + Len(t) > Len(s) \/ s[i + Len(t)] = " ")

PassesYearFilter(entry) ==
    \/ kw_call.year_keywords = <<>>
    \/ \E y \in SeqRange(kw_call.year_keywords) : IsSubstring(y, entry.source)

PassesTextFilter(entry) ==
    \/ kw_call.text_keywords = <<>>
    \/ \E t \in SeqRange(kw_call.text_keywords) : WholeWordIn(t, entry.source)

Eligible(entry) == PassesYearFilter(entry) /\ PassesTextFilter(entry)

Qualifying ==
    {e \in 1..Len(lincoln_data) :
        Eligible(lincoln_data[e]) /\ Occurring(lincoln_data[e]) # {}}

-----------------------------------------------------------------------------
(* Properties of the keyword search *)

\* C1: every returned match has weighted_score equal to the sum, over the
\* profile keywords, of (whole-word occurrence count) x (dynamic weight).
C1_WeightedScoreIsSum ==
    Returned =>
        \A i \in 1..Len(search_results) :
            search_results[i].weighted_score =
                ExpectedScore(EntryOf(search_results[i].text_id), Len(Profile))

\* C4: the keyword search returns at most top_n matches: as many as qualify,
\* up to top_n.
C4_AtMostTopN ==
    Returned =>
        Len(search_results) = Min(kw_call.top_n_results, Cardinality(Qualifying))

\* C5: every dynamic weight lies in (0, 10] and some keyword has weight 10.
C5_DynamicWeightRange ==
    Returned =>
        /\ \A k \in ProfileKeywords :
              RLess(RInt(0), DynamicWeight(k)) /\ RLeq(DynamicWeight(k), RInt(10))
        /\ \E k \in ProfileKeywords : DynamicWeight(k) = RInt(10)

C5_Witness ==
    /\ Returned
    /\ \E k \in ProfileKeywords : RLess(DynamicWeight(k), RInt(10))

\* the relative frequency of a keyword in the corpus term table, an unseen
\* keyword counting as frequency 1
CorpusRelativeFrequency(k) ==
    LET rows == {i \in 1..Len(voyant_terms) :
                    LowerWord(voyant_terms[i].term) = LowerWord(k)}
    IN IF rows = {} THEN RInt(1)
       ELSE RNorm(<<voyant_terms[CHOOSE i \in rows : TRUE].rawFreq,
                    total_words(voyant_terms)>>)

Unseen(k) ==
    \A i \in 1..Len(voyant_terms) : LowerWord(voyant_terms[i].term) # LowerWord(k)

\* C6: dynamic weight is inversely proportional to corpus relative frequency
\* (weight x frequency is the same for every keyword of the profile): the
\* rarer keyword has the greater-or-equal weight, the rarest has 10, an
\* unseen keyword counts as frequency 1, and no division by zero occurs.
C6_InverselyProportional ==
    /\ kw_outcome # "ZeroDivisionError"
    /\ Returned =>
          /\ \A a, b \in ProfileKeywords :
                RLeq(CorpusRelativeFrequency(a), CorpusRelativeFrequency(b))
                    => RLeq(DynamicWeight(b), DynamicWeight(a))
          /\ \A a \in ProfileKeywords :
                (\A b \in ProfileKeywords :
                    RLeq(CorpusRelativeFrequency(a), CorpusRelativeFrequency(b)))
                    => DynamicWeight(a) = RInt(10)
          /\ \A a, b \in ProfileKeywords :
                RMul(DynamicWeight(a), CorpusRelativeFrequency(a))
                    = RMul(DynamicWeight(b), CorpusRelativeFrequency(b))

C6_Witness ==
    /\ Returned
    /\ \E a, b \in ProfileKeywords :
          /\ Unseen(a)
          /\ ~Unseen(b)
          /\ RLess(DynamicWeight(a), DynamicWeight(b))

\* the character range of the quote centred on offset p of an entry's text
QuoteAround(entry, p) ==
    Slice(TextLen(entry.full_text), Max(0, p - 300),
          Min(TextLen(entry.full_text), p + 300))

\* C7: the quote of every match is the body window of 300 characters each
\* side, clipped to the body, around an occurrence of a keyword whose
\* original weight is the greatest among the keywords occurring in the
\* document.
C7_QuoteAtHighestOriginalWeight ==
    Returned =>
        \A i \in 1..Len(search_results) :
            LET entry == EntryOf(search_results[i].text_id)
            IN \E k \in Occurring(entry) :
                  /\ \A other \in Occurring(entry) :
                        OriginalWeight(other) <= OriginalWeight(k)
                  /\ \E p \in SeqRange(finditer(entry, LowerWord(k))) :
                        search_results[i].quote = QuoteAround(entry, p)

\* C8: the result is ordered by weighted_score, highest first, and matches
\* of equal score keep the order of their documents in the corpus.
C8_SortedStable ==
    Returned =>
        \A i, j \in 1..Len(search_results) :
            i < j =>
                /\ RLeq(search_results[j].weighted_score,
                        search_results[i].weighted_score)
                /\ search_results[i].weighted_score
                       = search_results[j].weighted_score
                   => CorpusIndex(search_results[i].text_id)
                          < CorpusIndex(search_results[j].text_id)

C8_Witness ==
    /\ Returned
    /\ Len(search_results) >= 2
    /\ search_results[1].weighted_score = search_results[2].weighted_score

\* C9: a document takes part in keyword matching iff it passes the year
\* filter (inactive, or some year token is a substring of the source label)
\* and the source-text filter (inactive, or some token is a whole word of the
\* source label, ignoring case); a document failing an active filter is
\* never returned.
C9_FilterSemantics ==
    Returned =>
        \A e \in 1..Len(lincoln_data) :
            /\ lincoln_data[e].text_id \in ResultIds => Eligible(lincoln_data[e])
            /\ (Eligible(lincoln_data[e]) /\ Occurring(lincoln_data[e]) # {})
                   => lincoln_data[e].text_id \in ResultIds

C9_Witness ==
    /\ Returned
    /\ kw_call.year_keywords # <<>>
    /\ kw_call.text_keywords # <<>>
    /\ \E e \in 1..Len(lincoln_data) :
          /\ Occurring(lincoln_data[e]) # {}
          /\ ~Eligible(lincoln_data[e])
    /\ search_results # <<>>

\* C10: for a non-empty profile a match is returned only for a document that
\* passes the filters and contains a profile keyword, its score is positive,
\* and when no document qualifies the result is empty and no error is raised.
C10_NoEmptyMatch ==
    (Called /\ Profile # <<>>) =>
        /\ Returned
        /\ \A i \in 1..Len(search_results) :
              /\ CorpusIndex(search_results[i].text_id) \in Qualifying
              /\ RLess(RInt(0), search_results[i].weighted_score)
              /\ search_results[i].keyword_counts # <<>>
        /\ Qualifying = {} => search_results = <<>>

C10_Witness ==
    /\ Returned
    /\ search_results # <<>>
    /\ \E e \in 1..Len(lincoln_data) :
          /\ Eligible(lincoln_data[e])
          /\ Occurring(lincoln_data[e]) = {}
          /\ lincoln_data[e].text_id \notin ResultIds

-----------------------------------------------------------------------------
(* The deduplicator as a state machine *)

MaxRows == 2

DedupIds == {"A", "B", "C"}

\* a row of the keyword-search DataFrame and of the semantic-search DataFrame
KeywordRow(id) == [text_id |-> id, summary |-> "summary", quote |-> "quote"]
SemanticRow(id) ==
    [text_id |-> id, summary |-> "summary", TopSegment |-> "segment"]

SemanticColumns == {"text_id", "summary", "TopSegment"}

IdLists == UNION {[1..n -> DedupIds] : n \in 0..MaxRows}

\* pd.DataFrame(results): no columns when there is no result
KeywordFrames ==
    {DataFrame([i \in 1..Len(ids) |-> KeywordRow(ids[i])]) : ids \in IdLists}

\* df.sort_values(...).head(n): the columns of the index are always there
SemanticFrames ==
    {[columns |-> SemanticColumns,
      rows |-> [i \in 1..Len(ids) |-> SemanticRow(ids[i])]] : ids \in IdLists}

KwIdle ==
    /\ lincoln_data = <<>>
    /\ voyant_terms = <<>>
    /\ kw_call = NoCall
    /\ normalized_weights = <<>>
    /\ search_results = <<>>
    /\ kw_outcome = "idle"

DdInit ==
    /\ KwIdle
    /\ DdIdle
    /\ RrIdle
    /\ SemIdle
    /\ PipeIdle
    /\ TopIdle
    /\ LineIdle
    /\ LogIdle
    /\ lincoln_dict = NoDict
    /\ lincoln_index_df = NoIndex

\* one call of remove_duplicates
RemoveDuplicates ==
    /\ dedup_outcome = "idle"
    /\ \E search \in KeywordFrames, semantic \in SemanticFrames :
          LET outcome == remove_duplicates_outcome(search, semantic)
          IN
             /\ dedup_call' = [search_results |-> search,
                               semantic_matches |-> semantic]
             /\ dedup_outcome' = outcome
             /\ deduplicated_results' =
                    IF outcome = "ok" THEN remove_duplicates(search, semantic)
                    ELSE EmptyFrame
    /\ UNCHANGED <<KwVars, RrVars, SemVars,
                   SegVars, PipeVars, TopVars, LineVars, LogVars, all_combined_data, combined_outcome,
                   again_call, deduplicated_again>>

\* lines 319-326 of run_rag_process on the frames of the last call
CombineData ==
    /\ dedup_outcome = "ok"
    /\ combined_outcome = "idle"
    /\ deduplicated_results' = quote_default(deduplicated_results)
    /\ all_combined_data' =
           combined_data(quote_default(deduplicated_results),
                         dedup_call.semantic_matches)
    /\ combined_outcome' = "ok"
    /\ UNCHANGED <<KwVars, RrVars, SemVars,
                   SegVars, PipeVars, TopVars, LineVars, LogVars, dedup_call, dedup_outcome,
                   again_call, deduplicated_again>>

\* remove_duplicates called again on its own output, with an empty second
\* set or with the output itself
RemoveDuplicatesAgain ==
    /\ dedup_outcome = "ok"
    /\ again_call.second = "none"
    /\ \E second \in {"empty", "itself"} :
          /\ again_call' = [first |-> deduplicated_results, second |-> second]
          /\ deduplicated_again' =
                 remove_duplicates(deduplicated_results,
                                   IF second = "empty" THEN EmptyFrame
                                   ELSE deduplicated_results)
    /\ UNCHANGED <<KwVars, RrVars, SemVars,
                   SegVars, PipeVars, TopVars, LineVars, LogVars, dedup_call, deduplicated_results,
                   dedup_outcome, all_combined_data, combined_outcome>>

DdNext == RemoveDuplicates \/ CombineData \/ RemoveDuplicatesAgain

DdSpec == DdInit /\ [][DdNext]_vars

-----------------------------------------------------------------------------
(* Properties of the deduplicator *)

KeywordInput == dedup_call.search_results.rows
SemanticInput == dedup_call.semantic_matches.rows
InputIds ==
    [i \in 1..(Len(KeywordInput) + Len(SemanticInput)) |->
        IF i <= Len(KeywordInput) THEN KeywordInput[i].text_id
        ELSE SemanticInput[i - Len(KeywordInput)].text_id]

\* the positions of the concatenated input whose text_id did not appear before
FirstOccurrences ==
    {i \in 1..Len(InputIds) : \A j \in 1..(i - 1) : InputIds[j] # InputIds[i]}

\* the row of the output that stems from input position i
OutputRowOf(i) ==
    deduplicated_results.rows[Cardinality({j \in FirstOccurrences : j <= i})]

\* C2: remove_duplicates returns the keyword rows followed by the semantic
\* rows without the rows whose text_id appeared earlier, so a document found
\* by both searches keeps its keyword-search row.
C2_KeepFirstOccurrence ==
    dedup_outcome # "idle" =>
        /\ dedup_outcome = "ok"
        /\ Len(deduplicated_results.rows) = Cardinality(FirstOccurrences)
        /\ \A i \in FirstOccurrences :
              /\ OutputRowOf(i).text_id = InputIds[i]
              /\ IF i <= Len(KeywordInput)
                 THEN /\ OutputRowOf(i).quote = KeywordInput[i].quote
                      /\ OutputRowOf(i).TopSegment = "NaN"
                 ELSE OutputRowOf(i).TopSegment
                          = SemanticInput[i - Len(KeywordInput)].TopSegment

C2_Witness ==
    /\ dedup_outcome = "ok"
    /\ [i \in 1..Len(KeywordInput) |-> KeywordInput[i].text_id] = <<"A", "B">>
    /\ [i \in 1..Len(SemanticInput) |-> SemanticInput[i].text_id] = <<"B", "C">>
    /\ Len(deduplicated_results.rows) = 3
    /\ deduplicated_results.rows[2].text_id = "B"
    /\ deduplicated_results.rows[2].quote = "quote"
    /\ deduplicated_results.rows[3].text_id = "C"

\* the input position the i-th output row stems from
FirstOccurrenceAt(i) ==
    CHOOSE k \in FirstOccurrences : Cardinality({j \in FirstOccurrences : j <= k}) = i

FromKeywordSearch(i) == FirstOccurrenceAt(i) <= Len(KeywordInput)

\* the line SearchType|Text ID: id|Summary: summary|quote of a candidate
CandidateLine(tag, id, summary, quote) ==
    <<tag, "|", "Text ID:", " ", id, "|", "Summary:", " ", summary, "|", quote>>

\* the line of the i-th deduplicated candidate, tagged with the search its
\* retained copy comes from and carrying that search's quote
ProvenanceLine(i) ==
    IF FromKeywordSearch(i)
    THEN CandidateLine("Keyword", InputIds[FirstOccurrenceAt(i)], "summary",
                       KeywordInput[FirstOccurrenceAt(i)].quote)
    ELSE CandidateLine("Semantic", InputIds[FirstOccurrenceAt(i)], "summary",
             SemanticInput[FirstOccurrenceAt(i) - Len(KeywordInput)].TopSegment)

\* the document identifier of a line: the text of its second part
LineId(line) == Strip(Remove(Split(line, <<>>)[2], "Text ID:"))

\* C15: the documents built for the reranker are exactly one line per
\* deduplicated candidate, SearchType|Text ID: id|Summary: summary|quote,
\* tagged with the search that produced the retained copy, and no document
\* identifier occurs in two lines.
C15_OneTaggedLinePerCandidate ==
    combined_outcome = "ok" =>
        /\ Len(all_combined_data) = Cardinality(FirstOccurrences)
        /\ \A i \in 1..Cardinality(FirstOccurrences) :
              i <= Len(all_combined_data)
                  => all_combined_data[i] = ProvenanceLine(i)
        /\ \A i, j \in 1..Len(all_combined_data) :
              i # j => LineId(all_combined_data[i]) # LineId(all_combined_data[j])

\* C16: after deduplication every candidate row has a value for each field
\* the lines are formatted from, a field its record lacks being the empty
\* string, so that no line handed to the reranker shows a missing value.
C16_NoMissingValue ==
    combined_outcome = "ok" =>
        /\ \A i \in 1..Len(deduplicated_results.rows) :
              /\ {"text_id", "summary", "quote"}
                     \subseteq DOMAIN deduplicated_results.rows[i]
              /\ \A c \in {"text_id", "summary", "quote"} :
                    deduplicated_results.rows[i][c] # "NaN"
        /\ \A i \in 1..Len(all_combined_data) :
              "nan" \notin SeqRange(all_combined_data[i])

OutputIds ==
    [i \in 1..Len(deduplicated_results.rows) |->
        deduplicated_results.rows[i].text_id]

\* C17: the output of remove_duplicates holds each text_id at most once, and
\* remove_duplicates applied to that output, with an empty second set or with
\* the output itself, returns the same rows in the same order.
C17_Idempotent ==
    dedup_outcome = "ok" =>
        /\ \A i, j \in 1..Len(OutputIds) : i # j => OutputIds[i] # OutputIds[j]
        /\ again_call.second # "none"
               => deduplicated_again.rows = again_call.first.rows

C17_Witness ==
    /\ dedup_outcome = "ok"
    /\ again_call.second = "itself"
    /\ Len(InputIds) = 4
    /\ Len(deduplicated_again.rows) = 2
    /\ OutputIds = <<"A", "B">>

-----------------------------------------------------------------------------
(* The reranker adapter as a state machine *)

MaxLines == 3

Line_Keyword1 ==
    <<"Keyword", "|", "Text ID:", " ", "Text #:", " ", "1", "|",
      "Summary:", " ", "s1", "|", "q1">>
Line_Semantic2 ==
    <<"Semantic", "|", "Text ID:", " ", "Text #:", " ", "2", "|",
      "Summary:", " ", "s2", "|", " ", "seg2">>
Line_ThreeParts == <<"Keyword", "|", "Text ID:", " ", "Text #:", " ", "3", "|", "q3">>
Line_OnePart == <<"junk">>

LinePool == {Line_Keyword1, Line_Semantic2, Line_ThreeParts, Line_OnePart}

DocumentLists == DistinctSeqs(LinePool, MaxLines)

\* the orders in which the reranker may return the documents
Orders(n) == {o \in [1..n -> 1..n] : \A i, j \in 1..n : i # j => o[i] # o[j]}

\* the response of the collaborator: the top_n most relevant documents, most
\* relevant first, with strictly decreasing relevance scores
Responses(documents) ==
    LET n == Len(documents)
        k == Min(rerank_top_n, n)
    IN {[i \in 1..k |-> [document |-> documents[o[i]], index |-> o[i] - 1,
                         relevance_score |-> k + 1 - i]] : o \in Orders(n)}

Dicts ==
    { NoDict,
      [defined |-> TRUE,
       items |-> {[text_id |-> <<"Text #:", " ", "1">>, has_source |-> TRUE,
                   source |-> "Source 1"],
                  [text_id |-> <<"Text #:", " ", "2">>, has_source |-> FALSE,
                   source |-> "NaN"]}] }

RerankCalls ==
    UNION {{[documents |-> documents, response |-> response, fails |-> FALSE,
             document_is_dict |-> d, query_valid |-> q] :
                response \in Responses(documents), d \in BOOLEAN, q \in BOOLEAN}
           \cup {[documents |-> documents, response |-> <<>>, fails |-> TRUE,
                  document_is_dict |-> FALSE, query_valid |-> q] : q \in BOOLEAN}
           : documents \in DocumentLists}

RrInit ==
    /\ KwIdle
    /\ DdIdle
    /\ RrIdle
    /\ SemIdle
    /\ PipeIdle
    /\ TopIdle
    /\ LineIdle
    /\ LogIdle
    /\ lincoln_index_df = NoIndex
    /\ lincoln_dict \in Dicts

\* one call of RAGProcess.rerank_results(user_query, combined_data)
RagRerank ==
    /\ rerank_outcome = "idle"
    /\ reranking_outcome = "idle"
    /\ \E call \in RerankCalls :
          LET outcome == RagRerankOutcome(lincoln_dict, call)
          IN
             /\ rerank_call' = call
             /\ rerank_outcome' = outcome
             /\ full_reranked_results' =
                    IF outcome = "ok" THEN RagLoop(lincoln_dict, call.response, 0)
                    ELSE <<>>
    /\ UNCHANGED <<KwVars, DdVars, SemVars,
                   SegVars, PipeVars, TopVars, LineVars, LogVars, lincoln_dict, reranked_data,
                   reranking_outcome>>

\* one call of reranking.rerank_results(query, documents, cohere_client)
ModRerank ==
    /\ rerank_outcome = "idle"
    /\ reranking_outcome = "idle"
    /\ \E call \in RerankCalls :
          LET outcome == ModRerankOutcome(call)
          IN
             /\ rerank_call' = call
             /\ reranking_outcome' = outcome
             /\ reranked_data' =
                    IF outcome = "ok"
                    THEN ModLoop(call.response, 1, call.document_is_dict)
                    ELSE <<>>
    /\ UNCHANGED <<KwVars, DdVars, SemVars, SegVars, PipeVars, TopVars, LineVars, LogVars, lincoln_dict,
                   full_reranked_results, rerank_outcome>>

RrNext == RagRerank \/ ModRerank

RrSpec == RrInit /\ [][RrNext]_vars

-----------------------------------------------------------------------------
(* Properties of the reranker adapter *)

\* position in the response of the result an output record was parsed from
ResponsePosition(record) == Len(rerank_call.response) + 1 - record.RelevanceScore

RanksContiguous(list) ==
    /\ Len(list) <= rerank_top_n
    /\ \A i \in 1..Len(list) : list[i].Rank = i
    /\ \A i, j \in 1..Len(list) :
          i < j => ResponsePosition(list[i]) < ResponsePosition(list[j])

\* C3: whatever lines the reranker returns, well-formed or not, both
\* rerank_results implementations return records whose Rank values are
\* 1, 2, ..., k in list order, k <= 10, in the order the reranker emitted.
C3_RanksContiguous ==
    /\ rerank_outcome = "ok" => RanksContiguous(full_reranked_results)
    /\ reranking_outcome = "ok" => RanksContiguous(reranked_data)

\* the number of "|" delimiters of a line
RECURSIVE Delimiters(_)
Delimiters(line) ==
    IF line = <<>> THEN 0
    ELSE (IF line[1] = "|" THEN 1 ELSE 0) + Delimiters(Tail(line))

\* the positions of the response whose line has at least 4 parts
WellFormedPositions ==
    {i \in 1..Len(rerank_call.response) :
        Delimiters(rerank_call.response[i].document) >= 3}

\* the output holds one record for each well-formed line of the response and
\* nothing else, in the order of the response
ExactlyWellFormed(list) ==
    /\ Len(list) = Cardinality(WellFormedPositions)
    /\ \A i \in 1..Len(list) :
          /\ ResponsePosition(list[i]) \in WellFormedPositions
          /\ list[i].SearchType
                 = <<Head(rerank_call.response[ResponsePosition(list[i])].document)>>
    /\ \A i, j \in 1..Len(list) :
          i < j => ResponsePosition(list[i]) < ResponsePosition(list[j])

C12_CollaboratorFailureRaised ==
    rerank_call.fails =>
        /\ rerank_outcome \in {"idle", "Exception"}
        /\ reranking_outcome \in {"idle", "Exception"}

-----------------------------------------------------------------------------
(* Semantic Search Engine: RAGProcess.cosine_similarity and search_text *)

MaxIndexDocs == 3

\* np.dot(vec1, vec2) on vectors of two components
Dot(vec1, vec2) == vec1[1] * vec2[1] + vec1[2] * vec2[2]

\* variant: the dot product is not divided by the norms
cosine_similarity_not_normalized(vec1, vec2) ==
    [dot_product |-> Dot(vec1, vec2), norms_squared |-> 1]

\* dot_product / (norm_vec1 * norm_vec2), kept exact as the pair of the dot
\* product and the square of the product of the norms
cosine_similarity(vec1, vec2) ==
    [dot_product |-> Dot(vec1, vec2),
     norms_squared |-> Dot(vec1, vec1) * Dot(vec2, vec2)]

\* sign(x) * x^2 of a similarity x, scaled by the other's squared norms
SignedSquare(sim, other) ==
    (IF sim.dot_product < 0 THEN -1 ELSE 1)
        * sim.dot_product * sim.dot_product * other.norms_squared

\* sim1 <= sim2 as real numbers
SimLeq(sim1, sim2) == SignedSquare(sim1, sim2) <= SignedSquare(sim2, sim1)

\* df['embedding'].apply(lambda x: self.cosine_similarity(x, user_query_embedding))
similarities(rows, user_query_embedding) ==
    [i \in 1..Len(rows) |->
        cosine_similarity(rows[i].embedding, user_query_embedding)]

\* the row orders sort_values("similarities", ascending=False) may produce:
\* the default sort is not stable, rows of equal similarity come in any order
SortedOrders(sims) ==
    {o \in Orders(Len(sims)) :
        \A i, j \in 1..Len(sims) : i < j => SimLeq(sims[o[j]], sims[o[i]])}

\* .head(n)
head(rows, n) == SubSeq(rows, 1, Min(n, Len(rows)))

\* df["similarities"] = ...: search_text writes the column into the frame it
\* is given
with_similarities(df, user_query_embedding) ==
    [df EXCEPT !.columns = @ \cup {"similarities"},
               !.similarities = similarities(df.rows, user_query_embedding)]

\* df.sort_values("similarities", ascending=False).head(n): the rows of df
\* in one of the sorted orders of its similarities column
sort_values_head(df, n, order) ==
    head([i \in 1..Len(order) |->
             [text_id |-> df.rows[order[i]].text_id,
              embedding |-> df.rows[order[i]].embedding,
              similarities |-> df.similarities[order[i]]]], n)

\* the rows of top_n for one of the sorted orders
search_text(df, user_query_embedding, n, order) ==
    sort_values_head(with_similarities(df, user_query_embedding), n, order)

EmbeddingPool == {<<1, 0>>, <<0, 1>>, <<1, 1>>, <<2, 0>>, <<-1, 0>>}

\* the index after its embedding column has been converted to lists of floats
IndexFrames ==
    {[embedding_format |-> "list",
      columns |-> {"text_id", "embedding"},
      rows |-> [i \in 1..Len(e) |-> [text_id |-> i, embedding |-> e[i]]],
      similarities |-> <<>>] :
        e \in UNION {[1..m -> EmbeddingPool] : m \in 0..MaxIndexDocs}}

SearchCalls ==
    {[query_embedding |-> q, n |-> n, fails |-> f] :
        q \in EmbeddingPool, n \in {1, 2, 5}, f \in BOOLEAN}

SemInit ==
    /\ KwIdle
    /\ DdIdle
    /\ RrIdle
    /\ SemIdle
    /\ PipeIdle
    /\ TopIdle
    /\ LineIdle
    /\ LogIdle
    /\ lincoln_dict = NoDict
    /\ lincoln_index_df \in IndexFrames

\* one call of search_text(df, user_query, n) on the index of the instance;
\* get_embedding raises when the embedding collaborator fails
SearchText ==
    /\ sem_outcome = "idle"
    /\ \E call \in SearchCalls :
          /\ sem_call' = call
          /\ IF call.fails
             THEN /\ sem_outcome' = "Exception"
                  /\ UNCHANGED <<lincoln_index_df, semantic_matches>>
             ELSE /\ sem_outcome' = "ok"
                  /\ lincoln_index_df' =
                         with_similarities(lincoln_index_df, call.query_embedding)
                  /\ \E order \in SortedOrders(similarities(lincoln_index_df.rows,
                                                            call.query_embedding)) :
                        semantic_matches' =
                            search_text(lincoln_index_df, call.query_embedding,
                                        call.n, order)
    /\ UNCHANGED <<KwVars, DdVars, RrVars, SegVars, PipeVars, TopVars, LineVars, LogVars>>

SemNext == SearchText

SemSpec == SemInit /\ [][SemNext]_vars

-----------------------------------------------------------------------------
(* Properties of the semantic search *)

ReturnedIds == {semantic_matches[i].text_id : i \in 1..Len(semantic_matches)}

\* the similarity of an index document to the query of the call
SimilarityOf(doc) ==
    cosine_similarity(lincoln_index_df.rows[doc].embedding,
                      sem_call.query_embedding)

\* a similarity of exactly 1
IsOne(sim) ==
    /\ sim.dot_product > 0
    /\ sim.dot_product * sim.dot_product = sim.norms_squared

-----------------------------------------------------------------------------
(* Segment comparison: RAGProcess.compare_segments_with_query_parallel *)

MaxSegments == 6

\* ThreadPoolExecutor(max_workers=5)
max_workers == 5

\* what the embedding collaborator returns for a segment: a function of the
\* text of the segment alone
get_embedding(segment) ==
    <<<<1, 0>>, <<0, 1>>, <<1, 1>>, <<2, 0>>, <<-1, 0>>>>[((segment - 1) % 5) + 1]

\* a future: its state and, once done, the embedding it holds
Future(state, embedding) == [state |-> state, embedding |-> embedding]

Running == {i \in 1..Len(futures) : futures[i].state = "running"}
Queued == {i \in 1..Len(futures) : futures[i].state = "queued"}
Done == {i \in 1..Len(futures) : futures[i].state \in {"done", "exception"}}

\* variant: the embeddings are read in the order the calls completed
segment_embeddings_as_completed(results, completed) ==
    [i \in 1..Len(results) |-> results[completed[i]]]

\* segment_embeddings = [future.result() for future in futures]
segment_embeddings(results, completed) ==
    [i \in 1..Len(results) |-> results[i]]

\* [(segments[i], self.cosine_similarity(segment_embeddings[i], query_embedding))
\*  for i in range(len(segments))]
segment_score_list(segments, embeddings, query_embedding) ==
    [i \in 1..Len(segments) |->
        <<segments[i], cosine_similarity(embeddings[i], query_embedding)>>]

\* the calls: segments 1..m, a query embedding, and the segment (0: none) on
\* which the embedding collaborator fails
SegmentCalls ==
    {[segments |-> [i \in 1..m |-> i], query_embedding |-> q, failing |-> f] :
        m \in 0..MaxSegments, q \in {<<1, 0>>, <<1, 1>>}, f \in {0, 2}}

SegInit ==
    /\ KwIdle
    /\ DdIdle
    /\ RrIdle
    /\ SemIdle
    /\ PipeIdle
    /\ TopIdle
    /\ LineIdle
    /\ LogIdle
    /\ lincoln_dict = NoDict
    /\ lincoln_index_df = NoIndex

\* the call is entered and the executor created
EnterCompare ==
    /\ seg_outcome = "idle"
    /\ \E call \in SegmentCalls : seg_call' = call
    /\ seg_outcome' = "running"
    /\ UNCHANGED <<futures, completion_order, segment_scores>>
    /\ UNCHANGED <<KwVars, DdVars, RrVars, SemVars, PipeVars, TopVars, LineVars, LogVars>>

\* executor.submit(self.get_embedding, segment) for the next segment
Submit ==
    /\ seg_outcome = "running"
    /\ Len(futures) < Len(seg_call.segments)
    /\ futures' = Append(futures, Future("queued", <<>>))
    /\ UNCHANGED <<seg_call, completion_order, segment_scores, seg_outcome>>
    /\ UNCHANGED <<KwVars, DdVars, RrVars, SemVars, PipeVars, TopVars, LineVars, LogVars>>

\* a worker thread takes the oldest queued call; there are at most
\* max_workers threads
StartCall ==
    /\ seg_outcome = "running"
    /\ Queued # {}
    /\ Cardinality(Running) < max_workers
    /\ LET i == CHOOSE k \in Queued : \A other \in Queued : k <= other
       IN futures' = [futures EXCEPT ![i] = Future("running", <<>>)]
    /\ UNCHANGED <<seg_call, completion_order, segment_scores, seg_outcome>>
    /\ UNCHANGED <<KwVars, DdVars, RrVars, SemVars, PipeVars, TopVars, LineVars, LogVars>>

\* one of the running embedding calls returns or raises
FinishCall ==
    /\ seg_outcome = "running"
    /\ \E i \in Running :
          /\ futures' =
                 [futures EXCEPT ![i] =
                     IF seg_call.failing = seg_call.segments[i]
                     THEN Future("exception", <<>>)
                     ELSE Future("done", get_embedding(seg_call.segments[i]))]
          /\ completion_order' = Append(completion_order, i)
    /\ UNCHANGED <<seg_call, segment_scores, seg_outcome>>
    /\ UNCHANGED <<KwVars, DdVars, RrVars, SemVars, PipeVars, TopVars, LineVars, LogVars>>

\* variant: a failed embedding call counts as the zero vector
CollectResults_default_score ==
    /\ seg_outcome = "running"
    /\ Len(futures) = Len(seg_call.segments)
    /\ Done = 1..Len(futures)
    /\ seg_outcome' = "ok"
    /\ segment_scores' =
           segment_score_list(
               seg_call.segments,
               [i \in 1..Len(futures) |->
                   IF futures[i].state = "exception" THEN <<0, 0>>
                   ELSE futures[i].embedding],
               seg_call.query_embedding)
    /\ UNCHANGED <<seg_call, futures, completion_order>>
    /\ UNCHANGED <<KwVars, DdVars, RrVars, SemVars, PipeVars, TopVars, LineVars, LogVars>>

\* every future.result() has returned or raised and the executor has shut
\* down: the list is built, or the exception of a failed call propagates
CollectResults ==
    /\ seg_outcome = "running"
    /\ Len(futures) = Len(seg_call.segments)
    /\ Done = 1..Len(futures)
    /\ IF \E i \in 1..Len(futures) : futures[i].state = "exception"
       THEN /\ seg_outcome' = "Exception"
            /\ UNCHANGED segment_scores
       ELSE /\ seg_outcome' = "ok"
            /\ segment_scores' =
                   segment_score_list(
                       seg_call.segments,
                       segment_embeddings(
                           [i \in 1..Len(futures) |-> futures[i].embedding],
                           completion_order),
                       seg_call.query_embedding)
    /\ UNCHANGED <<seg_call, futures, completion_order>>
    /\ UNCHANGED <<KwVars, DdVars, RrVars, SemVars, PipeVars, TopVars, LineVars, LogVars>>

SegNext == EnterCompare \/ Submit \/ StartCall \/ FinishCall \/ CollectResults

SegSpec == SegInit /\ [][SegNext]_vars

-----------------------------------------------------------------------------
(* Properties of the segment comparison *)

\* C19: compare_segments_with_query_parallel returns, for segments s_1..s_m,
\* the list of (s_i, sim_i) in input order, sim_i being the cosine similarity
\* of the embedding of s_i itself and the query embedding, in whatever order
\* the embedding calls complete, and at most 5 calls are in flight at once.
C19_InputOrderKept ==
    /\ Cardinality(Running) <= 5
    /\ seg_outcome = "ok" =>
          /\ Len(segment_scores) = Len(seg_call.segments)
          /\ \A i \in 1..Len(segment_scores) :
                /\ segment_scores[i][1] = seg_call.segments[i]
                /\ segment_scores[i][2]
                       = cosine_similarity(get_embedding(seg_call.segments[i]),
                                           seg_call.query_embedding)

C19_Witness ==
    /\ seg_outcome = "ok"
    /\ Len(seg_call.segments) = 6
    /\ completion_order = <<5, 3, 1, 6, 2, 4>>
    /\ segment_scores[1][1] = 1
    /\ segment_scores[6][1] = 6

-----------------------------------------------------------------------------
(* Pipeline Orchestrator: RAGProcess.run_rag_process *)

MaxQueries == 2

\* the stages of run_rag_process in the order of its statements, each named
\* after what it does; a run is at the stage it executes next
next_stage_rerank_before_dedup(stage) ==
    CASE stage = "prepare" -> "convert"
      [] stage = "convert" -> "assign"
      [] stage = "assign" -> "hays"
      [] stage = "hays" -> "keyword"
      [] stage = "keyword" -> "embed"
      [] stage = "embed" -> "similarities"
      [] stage = "similarities" -> "sort"
      [] stage = "sort" -> "segments"
      [] stage = "segments" -> "rerank"
      [] stage = "rerank" -> "dedup"
      [] stage = "dedup" -> "handoff"
      [] OTHER -> "returned"

next_stage(stage) ==
    CASE stage = "prepare" -> "convert"
      [] stage = "convert" -> "assign"
      [] stage = "assign" -> "hays"
      [] stage = "hays" -> "keyword"
      [] stage = "keyword" -> "embed"
      [] stage = "embed" -> "similarities"
      [] stage = "similarities" -> "sort"
      [] stage = "sort" -> "segments"
      [] stage = "segments" -> "dedup"
      [] stage = "dedup" -> "rerank"
      [] stage = "rerank" -> "handoff"
      [] OTHER -> "returned"

\* the locals of a call that has just been entered
NewRun ==
    [pc |-> "prepare", completed |-> <<>>, raised_at |-> "none",
     search_results |-> EmptyFrame, user_query_embedding |-> <<>>,
     semantic_matches |-> EmptyFrame, all_combined_data |-> <<>>,
     reranked_results |-> <<>>, top_three_results |-> <<>>]

\* the stage has run to its end
Completed(run, stage) ==
    [run EXCEPT !.pc = next_stage(stage), !.completed = Append(@, stage)]

\* variant: the failure is recorded and the call goes on with the next stage
Raised_and_continued(run, stage) ==
    [run EXCEPT !.pc = next_stage(stage), !.raised_at = stage]

\* an exception inside the try block: it is reported and raised again as
\* Exception("An error occurred during the RAG process.")
Raised(run, stage) == [run EXCEPT !.pc = "raised", !.raised_at = stage]

\* the corpus of the pipeline runs
PipeCorpus ==
    <<[text_id |-> "Text #: 1", source |-> "Source 1", summary |-> "summary"],
      [text_id |-> "Text #: 2", source |-> "Source 2", summary |-> "summary"]>>

PipeTerms == <<[term |-> "the", rawFreq |-> 2]>>

\* the embedded index as load_lincoln_index_embedded reads it: the embedding
\* column holds the text of the vectors
PipeIndex ==
    [embedding_format |-> "str",
     columns |-> {"text_id", "embedding", "combined"},
     rows |-> <<[text_id |-> "Text #: 1", embedding |-> <<1, 0>>],
                [text_id |-> "Text #: 2", embedding |-> <<0, 1>>]>>,
     similarities |-> <<>>]

\* {item['text_id']: item for item in lincoln_data.to_dict('records')}
corpus_dict(data) ==
    [defined |-> TRUE,
     items |-> {[text_id |-> Formatted(data[i].text_id), has_source |-> TRUE,
                 source |-> data[i].source] : i \in 1..Len(data)}]

\* search_with_dynamic_weights_expanded over a corpus that is a DataFrame:
\* 'for entry in data' walks the column labels, no label contains both
\* 'full_text' and 'source', so no instance is built
frame_search_results == DataFrame(<<>>)

\* semantic_matches with the TopSegment column of lines 298-311
with_top_segments(rows) ==
    [columns |-> SemanticColumns,
     rows |-> [i \in 1..Len(rows) |-> SemanticRow(rows[i].text_id)]]

\* the answer of the reranking collaborator to the documents of a run: the
\* documents in the order they were submitted, with decreasing scores
pipeline_response(documents) ==
    LET k == Min(rerank_top_n, Len(documents))
    IN [i \in 1..k |-> [document |-> documents[i], index |-> i - 1,
                        relevance_score |-> k + 1 - i]]

\* top_three_results = reranked_results[:3]
top_three(reranked_results) == head(reranked_results, 3)

\* The instance after __init__. corpus_kind is the type of self.lincoln_data
\* and self.voyant_data: "list" is what the loaders of data_utils return (a
\* list of entries and a dict), on which line 213 raises; "DataFrame" is what
\* lines 213 and 268 call for (to_dict('records'), .at[0, 'corpusTerms']).
PipeInit ==
    /\ DdIdle
    /\ RrIdle
    /\ SemIdle
    /\ lincoln_data = PipeCorpus
    /\ voyant_terms = PipeTerms
    /\ kw_call = NoCall
    /\ normalized_weights = <<>>
    /\ search_results = <<>>
    /\ kw_outcome = "idle"
    /\ lincoln_dict = NoDict
    /\ lincoln_index_df = PipeIndex
    /\ TopIdle
    /\ LineIdle
    /\ LogIdle
    /\ corpus_kind \in {"list", "DataFrame"}
    /\ runs = [q \in 1..MaxQueries |-> NewRun]

PipeFrame == <<TopVars, LineVars, LogVars, KwVars, DdVars, SegVars, sem_call, semantic_matches, sem_outcome, corpus_kind, rerank_call, full_reranked_results, rerank_outcome, reranked_data, reranking_outcome>>

\* lines 209-214: lincoln_data.to_dict('records') exists on a DataFrame only
PrepareData(q) ==
    /\ runs[q].pc = "prepare"
    /\ IF corpus_kind = "DataFrame"
       THEN /\ lincoln_dict' = corpus_dict(lincoln_data)
            /\ runs' = [runs EXCEPT ![q] = Completed(@, "prepare")]
       ELSE /\ runs' = [runs EXCEPT ![q] = Raised(@, "prepare")]
            /\ UNCHANGED lincoln_dict
    /\ UNCHANGED <<PipeFrame, lincoln_index_df>>

\* line 216, right-hand side: x.strip("[]").split(",") on every embedding,
\* an AttributeError when the column already holds lists
ReadEmbeddings(q) ==
    /\ runs[q].pc = "convert"
    /\ runs' = [runs EXCEPT ![q] =
                   IF lincoln_index_df.embedding_format = "str"
                   THEN Completed(@, "convert") ELSE Raised(@, "convert")]
    /\ UNCHANGED <<PipeFrame, lincoln_index_df, lincoln_dict>>

\* lines 216-220: the converted embeddings and the columns full_text, source
\* and summary are written into self.lincoln_index_df
AssignColumns(q) ==
    /\ runs[q].pc = "assign"
    /\ lincoln_index_df' =
           [lincoln_index_df EXCEPT
               !.embedding_format = "list",
               !.columns = @ \cup {"full_text", "source", "summary"}]
    /\ runs' = [runs EXCEPT ![q] = Completed(@, "assign")]
    /\ UNCHANGED <<PipeFrame, lincoln_dict>>

\* lines 225-265: the keyword model answers; json.loads or a missing key
\* raises on an answer that is not the expected JSON
HaysModel(q) ==
    /\ runs[q].pc = "hays"
    /\ \E valid \in BOOLEAN :
          runs' = [runs EXCEPT ![q] =
                      IF valid THEN Completed(@, "hays") ELSE Raised(@, "hays")]
    /\ UNCHANGED <<PipeFrame, lincoln_index_df, lincoln_dict>>

\* lines 268-289: the keyword search; it raises on keyword weights it cannot
\* normalise and on corpus terms of an unexpected format
KeywordStage(q) ==
    /\ runs[q].pc = "keyword"
    /\ \E ok \in BOOLEAN :
          runs' = [runs EXCEPT ![q] =
                      IF ok
                      THEN [Completed(@, "keyword") EXCEPT
                               !.search_results = frame_search_results]
                      ELSE Raised(@, "keyword")]
    /\ UNCHANGED <<PipeFrame, lincoln_index_df, lincoln_dict>>

\* search_text, line 130: the embedding of the query
EmbedQuery(q) ==
    /\ runs[q].pc = "embed"
    /\ \E ok \in BOOLEAN :
          runs' = [runs EXCEPT ![q] =
                      IF ok
                      THEN [Completed(@, "embed") EXCEPT
                               !.user_query_embedding = get_embedding(q)]
                      ELSE Raised(@, "embed")]
    /\ UNCHANGED <<PipeFrame, lincoln_index_df, lincoln_dict>>

\* search_text, line 131: the similarities column of self.lincoln_index_df
WriteSimilarities(q) ==
    /\ runs[q].pc = "similarities"
    /\ lincoln_index_df' =
           with_similarities(lincoln_index_df, runs[q].user_query_embedding)
    /\ runs' = [runs EXCEPT ![q] = Completed(@, "similarities")]
    /\ UNCHANGED <<PipeFrame, lincoln_dict>>

\* search_text, lines 132-134: the rows sorted by the similarities column
SortHead(q) ==
    /\ runs[q].pc = "sort"
    /\ \E order \in SortedOrders(lincoln_index_df.similarities) :
          runs' = [runs EXCEPT ![q] =
                      [Completed(@, "sort") EXCEPT
                          !.semantic_matches =
                              [columns |-> lincoln_index_df.columns,
                               rows |-> sort_values_head(lincoln_index_df, 5,
                                                         order)]]]
    /\ UNCHANGED <<PipeFrame, lincoln_index_df, lincoln_dict>>

\* lines 296-311: the top segment of every semantic match; a failed embedding
\* call of the segment comparison raises
TopSegments(q) ==
    /\ runs[q].pc = "segments"
    /\ \E ok \in BOOLEAN :
          runs' = [runs EXCEPT ![q] =
                      IF ok
                      THEN [Completed(@, "segments") EXCEPT
                               !.semantic_matches = with_top_segments(@.rows)]
                      ELSE Raised(@, "segments")]
    /\ UNCHANGED <<PipeFrame, lincoln_index_df, lincoln_dict>>

\* lines 316-326: deduplication and the documents for the reranker
Deduplicate(q) ==
    /\ runs[q].pc = "dedup"
    /\ runs' = [runs EXCEPT ![q] =
                   [Completed(@, "dedup") EXCEPT
                       !.all_combined_data =
                           combined_data(
                               quote_default(
                                   remove_duplicates(runs[q].search_results,
                                                     runs[q].semantic_matches)),
                               runs[q].semantic_matches)]]
    /\ UNCHANGED <<PipeFrame, lincoln_index_df, lincoln_dict>>

\* lines 331-337: rerank_results reads self.lincoln_dict for the sources
Rerank(q) ==
    /\ runs[q].pc = "rerank"
    /\ \E fails \in BOOLEAN :
          runs' = [runs EXCEPT ![q] =
                      IF fails THEN Raised(@, "rerank")
                      ELSE [Completed(@, "rerank") EXCEPT
                               !.reranked_results =
                                   RagLoop(lincoln_dict,
                                           pipeline_response(
                                               runs[q].all_combined_data), 0)]]
    /\ UNCHANGED <<PipeFrame, lincoln_index_df, lincoln_dict>>

\* lines 340-357: the top three results are formatted and handed to the
\* answer model, and the call returns; a failure of the answer model raises
Handoff(q) ==
    /\ runs[q].pc = "handoff"
    /\ \E ok \in BOOLEAN :
          runs' = [runs EXCEPT ![q] =
                      IF ok
                      THEN [Completed(@, "handoff") EXCEPT
                               !.top_three_results =
                                   top_three(runs[q].reranked_results)]
                      ELSE [Raised(@, "handoff") EXCEPT
                               !.top_three_results =
                                   top_three(runs[q].reranked_results)]]
    /\ UNCHANGED <<PipeFrame, lincoln_index_df, lincoln_dict>>

PipeNext ==
    \/ \E q \in DOMAIN runs : PrepareData(q)
    \/ \E q \in DOMAIN runs : ReadEmbeddings(q)
    \/ \E q \in DOMAIN runs : AssignColumns(q)
    \/ \E q \in DOMAIN runs : HaysModel(q)
    \/ \E q \in DOMAIN runs : KeywordStage(q)
    \/ \E q \in DOMAIN runs : EmbedQuery(q)
    \/ \E q \in DOMAIN runs : WriteSimilarities(q)
    \/ \E q \in DOMAIN runs : SortHead(q)
    \/ \E q \in DOMAIN runs : TopSegments(q)
    \/ \E q \in DOMAIN runs : Deduplicate(q)
    \/ \E q \in DOMAIN runs : Rerank(q)
    \/ \E q \in DOMAIN runs : Handoff(q)

PipeSpec == PipeInit /\ [][PipeNext]_vars

-----------------------------------------------------------------------------
(* Properties of the pipeline *)

HasCompleted(q, stage) == stage \in SeqRange(runs[q].completed)

\* the text_ids of the semantic matches a query gets when it runs alone on
\* the index as loaded
AloneMatches(q) ==
    LET order == CHOOSE o \in SortedOrders(similarities(PipeIndex.rows,
                                                        get_embedding(q))) : TRUE
        rows == search_text(PipeIndex, get_embedding(q), 5, order)
    IN [i \in 1..Len(rows) |-> rows[i].text_id]

\* the source label of a document in the corpus
CorpusSource(text_id) ==
    (CHOOSE entry \in SeqRange(PipeCorpus) :
        Formatted(entry.text_id) = <<"Text #:", " ">> \o text_id).source

StagePosition(q, stage) ==
    IF HasCompleted(q, stage)
    THEN CHOOSE i \in 1..Len(runs[q].completed) : runs[q].completed[i] = stage
    ELSE 0

\* the later stage has not run, or it ran after the earlier one had completed
OnlyAfter(q, later, earlier) ==
    HasCompleted(q, later) =>
        /\ HasCompleted(q, earlier)
        /\ StagePosition(q, earlier) < StagePosition(q, later)

\* C18: within one run_rag_process call, deduplication runs only after the
\* keyword search and the semantic search with its segment selection have
\* completed, the reranker is called only after deduplication has completed,
\* and the top three results are handed on only after reranking has returned.
C18_StagesOrdered ==
    \A q \in DOMAIN runs :
        /\ OnlyAfter(q, "dedup", "keyword")
        /\ OnlyAfter(q, "dedup", "sort")
        /\ OnlyAfter(q, "dedup", "segments")
        /\ OnlyAfter(q, "rerank", "dedup")
        /\ OnlyAfter(q, "handoff", "rerank")
        /\ runs[q].all_combined_data # <<>> => HasCompleted(q, "segments")
        /\ runs[q].reranked_results # <<>> => HasCompleted(q, "dedup")
        /\ runs[q].top_three_results # <<>> => HasCompleted(q, "rerank")

C18_Witness ==
    \E q \in DOMAIN runs :
        /\ runs[q].pc = "returned"
        /\ Len(runs[q].top_three_results) = 3
        /\ Len(runs[q].reranked_results) = 4

-----------------------------------------------------------------------------
(* Segment selection: segment_text and the top-segment loop of run_rag_process *)

\* A text is a sequence of atoms: " " is a whitespace character, every other
\* atom a word.

MaxTextWords == 201
MaxMatches == 2

\* segment_text(text, segment_size=100)
segment_size == 100

\* text.split()
split(str) == SelectSeq(str, LAMBDA atom : atom # " ")

\* ' '.join(words)
join(words) ==
    [i \in 1..(2 * Len(words) - 1) |->
        IF i % 2 = 1 THEN words[(i + 1) \div 2] ELSE " "]

\* variant: only the full segments are returned
segment_text_full_segments_only(str, size) ==
    LET words == split(str)
    IN [j \in 1..(Len(words) \div size) |->
           join(SubSeq(words, (j - 1) * size + 1, j * size))]

\* [' '.join(words[i:i+segment_size])
\*  for i in range(0, len(words), segment_size)]
segment_text(str, size) ==
    LET words == split(str)
    IN [j \in 1..((Len(words) + size - 1) \div size) |->
           join(SubSeq(words, (j - 1) * size + 1, Min(j * size, Len(words))))]

\* variant: of the pairs with the highest score the last one is taken
max_by_score_last(scores) ==
    scores[CHOOSE i \in 1..Len(scores) :
              /\ \A j \in 1..Len(scores) : SimLeq(scores[j][2], scores[i][2])
              /\ \A j \in (i + 1)..Len(scores) : ~SimLeq(scores[i][2], scores[j][2])]

\* max(segment_scores, key=lambda x: x[1]): the first pair with the highest
\* score
max_by_score(scores) ==
    scores[CHOOSE i \in 1..Len(scores) :
              /\ \A j \in 1..Len(scores) : SimLeq(scores[j][2], scores[i][2])
              /\ \A j \in 1..(i - 1) : ~SimLeq(scores[i][2], scores[j][2])]

\* not pd.isna(row['full_text']) and row['full_text'].strip() != ""
has_full_text(row) == ~row.isna /\ Strip(row.full_text) # <<>>

\* one pass of the loop of lines 299-309: what is appended to top_segments
top_segment(row, query_embedding) ==
    IF has_full_text(row)
    THEN LET segments == segment_text(row.full_text, segment_size)
             scores == segment_score_list(segments, row.segment_embeddings,
                                          query_embedding)
         IN IF scores # <<>> THEN max_by_score(scores)[1]
            ELSE <<>>
    ELSE <<>>

\* a text of n words; the padded one starts with whitespace and has two
\* whitespace characters after every word
Text(n, padded) ==
    IF padded
    THEN [i \in 1..(3 * n + 1) |->
             IF i > 1 /\ (i - 2) % 3 = 0 THEN ToString((i - 2) \div 3 + 1) ELSE " "]
    ELSE join([i \in 1..n |-> ToString(i)])

Texts == {Text(n, padded) : n \in 0..MaxTextWords, padded \in BOOLEAN}

\* the rows of semantic_matches: the body, missing or a text, and what the
\* embedding collaborator returns for each of its segments
MatchRows ==
    {[isna |-> TRUE, full_text |-> <<>>, segment_embeddings |-> <<>>]}
    \cup UNION {{[isna |-> FALSE, full_text |-> body, segment_embeddings |-> e] :
                    e \in [1..Len(segment_text(body, segment_size))
                              -> {<<1, 0>>, <<0, 1>>}]} :
                body \in {Text(0, FALSE), Text(0, TRUE), Text(1, FALSE),
                          Text(segment_size + 1, TRUE),
                          Text(MaxTextWords, FALSE)}}

\* the calls: the rows, the embedding of the query, and whether the
\* embedding collaborator fails
TopCalls ==
    {[rows |-> rows, query_embedding |-> q, fails |-> f] :
        rows \in UNION {[1..m -> MatchRows] : m \in 0..MaxMatches},
        q \in {<<1, 0>>, <<1, 1>>}, f \in BOOLEAN}

TopInit ==
    /\ KwIdle
    /\ DdIdle
    /\ RrIdle
    /\ SemIdle
    /\ PipeIdle
    /\ TopIdle
    /\ LineIdle
    /\ LogIdle
    /\ lincoln_dict = NoDict
    /\ lincoln_index_df = NoIndex

\* one call of segment_text(text)
SegmentText ==
    /\ top_outcome = "idle"
    /\ \E str \in Texts :
          /\ input_text' = str
          /\ text_segments' = segment_text(str, segment_size)
    /\ top_outcome' = "segmented"
    /\ UNCHANGED <<top_call, top_segments>>
    /\ UNCHANGED <<KwVars, DdVars, RrVars, SemVars, SegVars, PipeVars, LineVars, LogVars>>

\* lines 298-311: the loop over semantic_matches; a failed embedding call
\* raises out of compare_segments_with_query_parallel
SelectTopSegments ==
    /\ top_outcome = "idle"
    /\ \E call \in TopCalls :
          LET raised == call.fails /\ \E i \in 1..Len(call.rows) :
                                          has_full_text(call.rows[i])
          IN /\ top_call' = call
             /\ top_outcome' = IF raised THEN "Exception" ELSE "ok"
             /\ top_segments' =
                    IF raised THEN <<>>
                    ELSE [i \in 1..Len(call.rows) |->
                             top_segment(call.rows[i], call.query_embedding)]
    /\ UNCHANGED <<input_text, text_segments>>
    /\ UNCHANGED <<KwVars, DdVars, RrVars, SemVars, SegVars, PipeVars, LineVars, LogVars>>

TopNext == SegmentText \/ SelectTopSegments

TopSpec == TopInit /\ [][TopNext]_vars

-----------------------------------------------------------------------------
(* Properties of the segment selection *)

\* the words of the segments, one after the other
RECURSIVE WordsOf(_)
WordsOf(segments) ==
    IF segments = <<>> THEN <<>>
    ELSE SelectSeq(segments[1], LAMBDA atom : atom # " ") \o WordsOf(Tail(segments))

\* C21: segment_text(text, 100) cuts the words of the text into consecutive
\* segments: every segment but the last has exactly 100 words, the last has
\* between 1 and 100, the words of the segments in order are the words of
\* the text, and a text without words gives no segment.
C21_SegmentsPartitionWords ==
    top_outcome = "segmented" =>
        LET words == SelectSeq(input_text, LAMBDA atom : atom # " ")
            n == Len(text_segments)
        IN /\ \A j \in 1..(n - 1) : Len(WordsOf(<<text_segments[j]>>)) = 100
           /\ n > 0 => Len(WordsOf(<<text_segments[n]>>)) \in 1..100
           /\ WordsOf(text_segments) = words
           /\ words = <<>> => text_segments = <<>>

C21_Witness ==
    /\ top_outcome = "segmented"
    /\ Len(text_segments) = 3
    /\ input_text[1] = " "
    /\ Len(WordsOf(<<text_segments[3]>>)) = 1

\* the similarity of segment k of a row to the query
ScoreOf(row, k, query_embedding) ==
    cosine_similarity(row.segment_embeddings[k], query_embedding)

\* segment k of the row has the highest similarity and is the earliest such
EarliestBest(row, k, query_embedding) ==
    /\ \A j \in 1..Len(row.segment_embeddings) :
          SimLeq(ScoreOf(row, j, query_embedding), ScoreOf(row, k, query_embedding))
    /\ \A j \in 1..(k - 1) :
          ~SimLeq(ScoreOf(row, k, query_embedding), ScoreOf(row, j, query_embedding))

\* C22: the loop records one representative segment per semantic match, in
\* row order: the earliest segment of the body with the highest similarity
\* to the query, or the empty string when the body is missing or has no
\* words; without a body no embedding is asked for, so nothing can fail; the
\* recorded segments are a function of the rows and the query.
C22_RepresentativeSegment ==
    /\ top_outcome = "ok" =>
          /\ Len(top_segments) = Len(top_call.rows)
          /\ \A i \in 1..Len(top_call.rows) :
                LET row == top_call.rows[i]
                    body == IF row.isna THEN <<>> ELSE row.full_text
                    segments == segment_text(body, segment_size)
                IN IF segments = <<>> THEN top_segments[i] = <<>>
                   ELSE \E k \in 1..Len(segments) :
                           /\ top_segments[i] = segments[k]
                           /\ EarliestBest(row, k, top_call.query_embedding)
    /\ top_outcome = "Exception" =>
          \E i \in 1..Len(top_call.rows) :
              /\ ~top_call.rows[i].isna
              /\ SelectSeq(top_call.rows[i].full_text, LAMBDA atom : atom # " ") # <<>>

C22_Witness ==
    /\ top_outcome = "ok"
    /\ Len(top_call.rows) = 2
    /\ top_call.rows[1].isna
    /\ top_call.rows[2].segment_embeddings = <<<<0, 1>>, <<1, 0>>, <<1, 0>>>>
    /\ top_call.query_embedding = <<1, 0>>
    /\ top_call.fails = FALSE
    /\ top_segments[1] = <<>>
    /\ top_segments[2] = segment_text(top_call.rows[2].full_text, segment_size)[2]

-----------------------------------------------------------------------------
(* Properties of the source lookup *)

\* the entries of self.lincoln_dict that hold a source label for the id
LabelledEntries(text_id) ==
    {item \in lincoln_dict.items :
        item.text_id = <<"Text #:", " ">> \o text_id /\ item.has_source}

\* C23: in every call of RAGProcess.rerank_results, the Source of every
\* parsed line is the source label the corpus holds for the recovered id, or
\* 'Source information not available' when it holds none, and the call
\* fails only when the collaborator fails, never in the lookup.
C23_SourceOrPlaceholder ==
    /\ rerank_outcome = "Exception" => rerank_call.fails
    /\ \A i \in 1..Len(full_reranked_results) :
          LET record == full_reranked_results[i]
          IN IF LabelledEntries(record.TextID) # {}
             THEN \E item \in LabelledEntries(record.TextID) :
                     record.Source = item.source
             ELSE record.Source = "Source information not available"

-----------------------------------------------------------------------------
(* Properties of empty result sets *)

\* C24: empty results are no fault downstream: remove_duplicates of two
\* results without rows returns a result without rows, and reranking no
\* documents, with a collaborator that does not fail, returns an empty
\* result without an error being raised or reported.
C24_EmptyIsNoFault ==
    /\ ( /\ dedup_outcome # "idle"
         /\ dedup_call.search_results.rows = <<>>
         /\ dedup_call.semantic_matches.rows = <<>> )
       => dedup_outcome = "ok" /\ deduplicated_results.rows = <<>>
    /\ (rerank_outcome # "idle" /\ rerank_call.documents = <<>> /\ ~rerank_call.fails)
       => rerank_outcome = "ok" /\ full_reranked_results = <<>>
    /\ (reranking_outcome # "idle" /\ rerank_call.documents = <<>> /\ ~rerank_call.fails)
       => reranking_outcome = "ok" /\ reranked_data = <<>>

-----------------------------------------------------------------------------
(* Properties of embedding failures *)

\* C25: when the embedding collaborator fails for the query, search_text
\* raises and returns no matches; when it fails for a segment,
\* compare_segments_with_query_parallel raises and returns no list, so no
\* segment gets a default similarity.
C25_EmbeddingFailureRaised ==
    /\ (sem_outcome # "idle" /\ sem_call.fails)
       => sem_outcome = "Exception" /\ semantic_matches = <<>>
    /\ ( /\ seg_outcome \in {"ok", "Exception"}
         /\ seg_call.failing \in SeqRange(seg_call.segments) )
       => seg_outcome = "Exception" /\ segment_scores = <<>>
    /\ seg_outcome = "ok" =>
          /\ Len(segment_scores) = Len(seg_call.segments)
          /\ \A i \in 1..Len(futures) : futures[i].state = "done"

C25_Witness ==
    /\ seg_outcome = "Exception"
    /\ Len(seg_call.segments) = 6
    /\ futures[2].state = "exception"
    /\ \A i \in {1, 3, 4, 5, 6} : futures[i].state = "done"
    /\ segment_scores = <<>>

-----------------------------------------------------------------------------
(* Properties of an empty keyword set *)

\* C26: with an empty keyword set search_with_dynamic_weights_expanded
\* raises in the weighting, before the corpus is scanned: the call ends with
\* an exception, no weights and no result set, and is made once.
C26_EmptyKeywordsFailFast ==
    (kw_outcome # "idle" /\ kw_call.user_keywords = <<>>) =>
        /\ kw_outcome \in {"ValueError", "ZeroDivisionError"}
        /\ normalized_weights = <<>>
        /\ search_results = <<>>

C26_Witness ==
    /\ kw_outcome = "ValueError"
    /\ kw_call.user_keywords = <<>>
    /\ Len(lincoln_data) = 2
    /\ voyant_terms # <<>>

-----------------------------------------------------------------------------
(* Properties of failures in the pipeline *)

\* the stages of a call in the order of the statements of run_rag_process
StageOrder ==
    <<"prepare", "convert", "assign", "hays", "keyword", "embed",
      "similarities", "sort", "segments", "dedup", "rerank", "handoff">>

\* C27: when a stage of run_rag_process fails, the call ends there with one
\* exception: the stages before it have run, the failed stage and the later
\* ones have not, nothing is returned, and the results of the later stages
\* stay unset; a call that returns has run every stage without a failure.
C27_FailureEndsTheCall ==
    \A q \in DOMAIN runs :
        LET run == runs[q]
        IN /\ run.raised_at # "none" =>
                 /\ run.pc = "raised"
                 /\ \E k \in 1..Len(StageOrder) :
                       /\ StageOrder[k] = run.raised_at
                       /\ run.completed = SubSeq(StageOrder, 1, k - 1)
                 /\ run.raised_at \in {"prepare", "convert", "assign", "hays",
                                       "keyword", "embed"}
                       => run.semantic_matches = EmptyFrame
                 /\ run.raised_at # "handoff" => run.top_three_results = <<>>
                 /\ run.raised_at \notin {"handoff"} => run.reranked_results = <<>>
           /\ run.pc = "returned" =>
                 run.raised_at = "none" /\ run.completed = StageOrder
           /\ run.pc = "raised" => run.raised_at # "none"

C27_Witness ==
    /\ runs[1].raised_at = "rerank"
    /\ Len(runs[1].completed) = 10
    /\ runs[1].all_combined_data # <<>>
    /\ runs[1].reranked_results = <<>>
    /\ runs[2].raised_at = "segments"

\* C28: the quote of every returned keyword match is non-empty and contains
\* the keyword occurrence it is centred on, also when the keyword occurs only
\* in the summary or the keyword tags of the document.
C28_QuoteContainsKeyword ==
    Returned =>
        \A i \in 1..Len(search_results) :
            LET entry == EntryOf(search_results[i].text_id)
                quote == search_results[i].quote
            IN /\ quote.start < quote.end
               /\ \E k \in Occurring(entry) :
                     \E p \in SeqRange(finditer(entry, LowerWord(k))) :
                        /\ quote = QuoteAround(entry, p)
                        /\ quote.start <= p
                        /\ p + WordLen(LowerWord(k)) <= quote.end

-----------------------------------------------------------------------------
(* Candidate lines: written by run_rag_process and by
   prepare_documents_for_reranking, read back by the two rerank_results *)

summary_length == 200
max_length == 1000

\* number of characters of an atom of a line
AtomLen(a) ==
    CASE a \in {"Text ID:", "Summary:", "Semantic"} -> 8
      [] a \in {"Text #:", "Keyword"} -> 7
      [] OTHER -> WordLen(a)

\* text[:n]; an atom the cut goes through leaves the shorter piece "cut"
RECURSIVE Prefix(_, _)
Prefix(text, n) ==
    IF text = <<>> \/ n <= 0 THEN <<>>
    ELSE IF AtomLen(text[1]) <= n
         THEN <<text[1]>> \o Prefix(Tail(text), n - AtomLen(text[1]))
    ELSE <<"cut">>

\* f"{Keyword or Semantic}|Text ID: {text_id}|Summary: {summary}|{quote}"
candidate_line(c) ==
    c.search_type \o <<"|", "Text ID:", " ">> \o c.text_id
        \o <<"|", "Summary:", " ">> \o c.summary \o <<"|">> \o c.quote

\* f"{search_type}|{text_id}|{summary}|{quote}".strip(), the summary cut to
\* 200 and the quote to max_length characters
document_text(c) ==
    Strip(c.search_type \o <<"|">> \o c.text_id \o <<"|">>
              \o Prefix(c.summary, summary_length) \o <<"|">>
              \o Prefix(c.quote, max_length))

TextIdPool == {<<"7">>, <<"Text #:", " ", "1">>, <<" ", "7", " ">>}

SummaryPool ==
    {<<>>, <<"s1">>, <<"a", "|", "b">>, <<"Summary:", " ", "s1">>, <<"pad">>}

QuotePool ==
    {<<"q1">>, <<" ", "q1", " ">>, <<"q", "|", "r">>,
     <<"Text ID:", " ", "q1">>, <<"pad", " ", "pad", " ", "pad">>}

Candidates ==
    [search_type : {<<"Keyword">>, <<"Semantic">>}, text_id : TextIdPool,
     summary : SummaryPool, quote : QuotePool]

LineInit ==
    /\ KwIdle
    /\ DdIdle
    /\ RrIdle
    /\ SemIdle
    /\ PipeIdle
    /\ TopIdle
    /\ LogIdle
    /\ lincoln_index_df = NoIndex
    /\ lincoln_dict = CHOOSE dict \in Dicts : dict.defined
    /\ candidate \in Candidates
    /\ document_line = [text |-> <<>>, writer |-> "none"]
    /\ parsed = <<>>

\* run_rag_process writes the line of the candidate into all_combined_data
CombineLine ==
    /\ document_line.writer = "none"
    /\ document_line' = [text |-> candidate_line(candidate),
                         writer |-> "run_rag_process"]
    /\ UNCHANGED <<KwVars, DdVars, RrVars, SemVars, SegVars, PipeVars, TopVars,
                   LogVars, candidate, parsed>>

\* prepare_documents_for_reranking writes the document of the candidate
PrepareDocument ==
    /\ document_line.writer = "none"
    /\ document_line' = [text |-> document_text(candidate),
                         writer |-> "prepare_documents_for_reranking"]
    /\ UNCHANGED <<KwVars, DdVars, RrVars, SemVars, SegVars, PipeVars, TopVars,
                   LogVars, candidate, parsed>>

\* RAGProcess.rerank_results reads back the line the reranker returned
RagReadBack ==
    /\ document_line.writer = "run_rag_process"
    /\ parsed = <<>>
    /\ parsed' = RagLoop(lincoln_dict,
                         <<[document |-> document_line.text, index |-> 0,
                            relevance_score |-> 1]>>, 0)
    /\ UNCHANGED <<KwVars, DdVars, RrVars, SemVars, SegVars, PipeVars, TopVars,
                   LogVars, candidate, document_line>>

\* reranking.rerank_results reads back the document the reranker returned
ModReadBack ==
    /\ document_line.writer = "prepare_documents_for_reranking"
    /\ parsed = <<>>
    /\ parsed' = ModLoop(<<[document |-> document_line.text, index |-> 0,
                            relevance_score |-> 1]>>, 1, FALSE)
    /\ UNCHANGED <<KwVars, DdVars, RrVars, SemVars, SegVars, PipeVars, TopVars,
                   LogVars, candidate, document_line>>

LineNext ==
    \/ CombineLine
    \/ PrepareDocument
    \/ RagReadBack
    \/ ModReadBack

LineSpec == LineInit /\ [][LineNext]_vars

\* C29: the fields read back from the line of a candidate are the trimmed
\* fields of the candidate: Search Type, Text ID, Summary and Key Quote.
C29_LineRoundTrip ==
    parsed # <<>> =>
        /\ parsed[1].SearchType = Strip(candidate.search_type)
        /\ parsed[1].TextID = Strip(candidate.text_id)
        /\ parsed[1].Summary = Strip(candidate.summary)
        /\ parsed[1].KeyQuote = Strip(candidate.quote)

-----------------------------------------------------------------------------
(* DataLogger.record_api_outputs on one Google sheet *)

\* A record is <<session, number>>: the number-th record a session logs;
\* session 0 stands for the records the sheet held before. The sheet is the
\* sequence of its records, the header row left out.

MaxSessions == 2
MaxRecords == 2
MaxExisting == 1

Sessions == 1..MaxSessions

\* self.sheet.get_all_records(): one record per row below the header
get_all_records(rows) == rows

\* self.sheet.set_dataframe(df, (end_row, 1), copy_head=False, extend=True):
\* the one-row frame is written into sheet row end_row, which is record
\* end_row - 1; a row that is there is replaced, the sheet grows as needed
set_dataframe(rows, record, end_row) ==
    LET r == end_row - 1
    IN IF r <= Len(rows) THEN [rows EXCEPT ![r] = record]
       ELSE rows \o [i \in 1..(r - Len(rows) - 1) |-> <<0, 0>>] \o <<record>>

ExistingSheets == {[i \in 1..n |-> <<0, i>>] : n \in 0..MaxExisting}

LogInit ==
    /\ KwIdle
    /\ DdIdle
    /\ RrIdle
    /\ SemIdle
    /\ PipeIdle
    /\ TopIdle
    /\ LineIdle
    /\ lincoln_dict = NoDict
    /\ lincoln_index_df = NoIndex
    /\ sheet \in ExistingSheets
    /\ log_calls = [s \in Sessions |-> [pc |-> "idle", end_row |-> 0, logged |-> 0]]

\* a session enters record_api_outputs with its next record and reads the
\* number of records: end_row = len(self.sheet.get_all_records()) + 2
ReadEndRow(s) ==
    /\ log_calls[s].pc = "idle"
    /\ log_calls[s].logged < MaxRecords
    /\ log_calls' = [log_calls EXCEPT
                        ![s] = [pc |-> "read",
                                end_row |-> Len(get_all_records(sheet)) + 2,
                                logged |-> log_calls[s].logged]]
    /\ UNCHANGED <<KwVars, DdVars, RrVars, SemVars, SegVars, PipeVars, TopVars,
                   LineVars, sheet>>

\* the session writes its record at end_row and the call returns
WriteRecord(s) ==
    /\ log_calls[s].pc = "read"
    /\ sheet' = set_dataframe(sheet, <<s, log_calls[s].logged + 1>>,
                              log_calls[s].end_row)
    /\ log_calls' = [log_calls EXCEPT
                        ![s] = [pc |-> "idle", end_row |-> 0,
                                logged |-> log_calls[s].logged + 1]]
    /\ UNCHANGED <<KwVars, DdVars, RrVars, SemVars, SegVars, PipeVars, TopVars,
                   LineVars>>

LogNext ==
    \/ \E s \in Sessions : ReadEndRow(s)
    \/ \E s \in Sessions : WriteRecord(s)

LogSpec == LogInit /\ [][LogNext]_vars

\* the records of the calls that have returned
LoggedRecords ==
    UNION {{<<s, k>> : k \in 1..log_calls[s].logged} : s \in Sessions}

\* the records the sheet held before the first call; no call writes above
\* the end of the sheet it read
ExistingRecords == {i \in 1..Len(sheet) : sheet[i][1] = 0}

\* C30: record_api_outputs is append-only under every interleaving of calls:
\* the record of every call that has returned is in the sheet, and the sheet
\* holds one more record for each such call than before.
C30_AppendOnly ==
    /\ \A record \in LoggedRecords : \E i \in 1..Len(sheet) : sheet[i] = record
    /\ Len(sheet) = Cardinality(ExistingRecords) + Cardinality(LoggedRecords)

====
